---- MODULE Spec2Model ----
(***************************************************************************)
(* Session core of the Vyx desktop client (package conn): the supervisor   *)
(* loop ConnectQuicServer, the control-stream reader quicReader, the       *)
(* per-CONNECT goroutine handleConnect with its two relay tasks, the       *)
(* shared writer sendMessage / sendCloseMessage, and the tray commands     *)
(* DisconnectQuic (stop) and ReconnectQuic (start).                        *)
(*                                                                         *)
(* Granularity: one action per critical section or blocking call.  A step  *)
(* that only touches goroutine-local data is merged with the next step     *)
(* of the same goroutine that touches shared data.                         *)
(***************************************************************************)
EXTENDS Integers, Sequences, FiniteSets, TLC

(* ------------------------------ bounds --------------------------------- *)
\* sessions the supervisor may dial in one run
MaxSessions == 2
\* CONNECT frames dispatched in one run (one handleConnect goroutine each)
MaxHandlers == 2
\* distinct sub-connection identifiers the server uses
NumIds == 2
\* capacity of a sub-connection's inbound queue (10000 in the source)
QueueCap == 1
\* non-empty reads from one destination socket
MaxReads == 2
\* PING frames received in one run
MaxPings == 1
\* tray commands (stop, start) issued in one run
MaxCommands == 2
\* transport faults (failed dial or stream open, rejected authentication,
\* connection loss, cancelled send side)
MaxFaults == 1

\* failed connection attempts in a row in the run that explores the backoff
\* schedule (the last step of the schedule starts at attempt 16)
MaxAttempts == 17

\* tasks that call sendMessage while authenticateWithServer writes AUTH
MaxSenders == 2
\* bytes of one frame
FrameLen == 2

\* the last message type code (connection.go:135)
MsgTypeUIDRegister == 10
\* byte values used in the id, addr and data of a binary message
MaxByte == 1
\* length of the id, addr and data of a binary message
MaxFieldLen == 1

\* What one run explores.  A run is about supervision (one sub-connection,
\* several sessions, with transport faults or with tray commands), about
\* relaying (several sub-connections on one session) or about the backoff
\* schedule (many failed attempts in a row, no sub-connection) or about
\* gaps in the inbound traffic (gaps = 1: the 60 s read deadline may expire,
\* and frames may follow AUTH_SUCCESS at once).  reads: non-empty reads from
\* one destination socket.
Scenarios ==
    { [handlers |-> 1, sessions |-> MaxSessions, commands |-> 0,
       faults |-> MaxFaults, pings |-> MaxPings, gaps |-> 0, reads |-> MaxReads],
      [handlers |-> 1, sessions |-> MaxSessions, commands |-> MaxCommands,
       faults |-> 0, pings |-> 0, gaps |-> 0, reads |-> 1],
      [handlers |-> MaxHandlers, sessions |-> 1, commands |-> 1,
       faults |-> 0, pings |-> 0, gaps |-> 0, reads |-> 1],
      [handlers |-> 0, sessions |-> 1, commands |-> 0,
       faults |-> MaxAttempts, pings |-> 0, gaps |-> 0, reads |-> 1],
      [handlers |-> 1, sessions |-> 1, commands |-> 0,
       faults |-> MaxFaults, pings |-> MaxPings, gaps |-> 1, reads |-> 1] }

\* The run explored under fairness: one sub-connection on one session
FairScenario ==
    [handlers |-> 1, sessions |-> 1, commands |-> MaxCommands,
     faults |-> MaxFaults, pings |-> MaxPings, gaps |-> 1, reads |-> 1]

Sessions == 1..MaxSessions
Handlers == 1..MaxHandlers
Ids      == 1..NumIds
\* the nil pointer (quicConn, quicStream, a missing table entry)
Nil      == 0

VARIABLES
    (* package-level state, part_006:33-41 *)
    quicConn,            \* *quic.Conn installed as the live session, or Nil
    quicStream,          \* *quic.Stream installed as the control stream, or Nil
    clientConns,         \* id -> Connection object (named by its handler), or Nil
    shouldAutoReconnect, \* shareEnabled
    (* ConnectQuicServer and quicReader locals *)
    supPc,               \* position of the supervisor loop
    supConn,             \* the loop's local conn/stream, or Nil
    connectionAttempts,
    consecutiveAuthFailures,
    lastConnectionSuccessful,
    retryDelay,          \* seconds of the time.Sleep the loop is in
    stale,               \* quicReader: more than ten minutes since lastMessageTime
    wireStale,           \* more than ten minutes since the server last sent a frame
    decoderErr,          \* quicReader: its json.Decoder holds a read error
    (* transport sessions (quic-go objects) *)
    dialed,              \* number of sessions dialed so far
    closedSess,          \* sessions the agent closed (CloseWithError)
    brokenSess,          \* sessions whose connection failed (network, peer)
    writeDead,           \* streams whose send side the peer cancelled
    first,               \* per stream: type of the first frame written to it
    (* handleConnect goroutines and the Connection objects they create *)
    hPc, hId, hSess,
    sockClosed,          \* cc.conn closed by the agent
    chanClosed,          \* cc.dataChan closed
    queue,               \* number of slices buffered in cc.dataChan
    closedBy,            \* who closed cc.dataChan: <<kind, handler>>
    r1Pc, r2Pc,          \* relayFromConnToQuic / relayFromChanToConn
    reads,               \* non-empty reads made by relayFromConnToQuic
    sent,                \* per handler: frames its tasks wrote, with the stream
    (* tray commands *)
    stopReturned,        \* DisconnectQuic has returned, ReconnectQuic not called since
    commands,            \* tray commands issued so far
    (* environment *)
    scenario,            \* the budgets of this run
    dropped,             \* a DATA payload was dropped on a full queue
    pongs,               \* per PING dispatched: its id and the id of the PONG written
    loggedIn, pings,
    faults,              \* transport faults so far
    writeErr,            \* sendMessage returned a write error on the session being read
    lost,                \* how a frame of the served stream came to be never dispatched
    (* writers of one control stream, byte by byte *)
    wPc,                 \* position of each writer
    wOff,                \* bytes of its frame each writer has handed to the stream
    quicMutexHolder,     \* the writer that holds quicMutex, or Nil
    wire,                \* the bytes on the stream: <<writer, offset>>
    serialized,          \* the transport runs one Write call at a time
    (* binary message codec *)
    cFrames,             \* the messages given to WriteBinaryMessage, in order
    cWritten,            \* how many of them have been written
    cBuf,                \* the bytes written and not yet read
    cRead,               \* the results of ReadBinaryMessage, in order
    (* server discovery *)
    dPc,                 \* position of the address selection
    dIn,                 \* DebugMode, what the API answers, the servers it lists
    dNext,               \* SelectBestServer: position of its loop in the kept list
    dScores,             \* SelectBestServer: its scores slice
    dAddr,               \* the address selected, or NoAddr
    (* authentication, one stream after the other *)
    aPc,                 \* position of LoadConfig / authenticateWithServer
    aCfg,                \* config.GlobalConfig: UserID and APIToken
    aKeyring,            \* the token the OS keyring holds for the user
    aStream,             \* the stream authenticateWithServer was called with
    aWire,               \* the frames authenticateWithServer wrote
    aResp,               \* per stream: what its select received
    aResult,             \* per stream: what authenticateWithServer returned
    (* single-instance lock, several processes *)
    lPc,                 \* position of each process in AcquireInstanceLock / Release
    lFd,                 \* the file each process has open (l.lockFile), or Nil
    lPath,               \* the file that ~/.vyx/instance.lock names, or Nil
    lLock,               \* per file: the process whose open file holds the flock, or Nil
    lFiles,              \* files created so far
    (* the configuration file and the OS keyring *)
    kPc,                 \* "start" until LoadConfig has run
    kFile,               \* config.json: exists, user_id, a legacy api_token
    kCfg,                \* config.GlobalConfig: UserID and APIToken
    kRing,               \* the keyring of service vyx-proxy-client: account -> token
    kStart,              \* config.json as the agent found it
    (* CLOSE frames against handleConnect *)
    closeSeen,           \* handlers whose id a CLOSE carried after their CONNECT
    (* quicMutex and clientMutex *)
    mCall,               \* per task: the lock operations of the call it is in
    mAt,                 \* per task: the position of its next lock operation
    mWant,               \* per task: the Lock or RLock it is blocked in, or NoOp
    mHeld                \* per task: the locks it holds, in the order acquired

writerVars == << wPc, wOff, quicMutexHolder, wire, serialized >>
\* the variables of the component models
codecVars == << cFrames, cWritten, cBuf, cRead >>
discVars == << dPc, dIn, dNext, dScores, dAddr >>
authVars == << aPc, aCfg, aKeyring, aStream, aWire, aResp, aResult >>
lockVars == << lPc, lFd, lPath, lLock, lFiles >>
cfgVars == << kPc, kFile, kCfg, kRing, kStart >>
raceVars == << closeSeen >>
mutexVars == << mCall, mAt, mWant, mHeld >>
sideVars == << writerVars, codecVars, discVars, authVars, lockVars, cfgVars, raceVars, mutexVars >>

vars == << quicConn, quicStream, clientConns, shouldAutoReconnect,
           supPc, supConn, connectionAttempts, consecutiveAuthFailures,
           lastConnectionSuccessful, retryDelay, stale, wireStale, decoderErr,
           dialed, closedSess, brokenSess, writeDead, first,
           hPc, hId, hSess, sockClosed, chanClosed, queue, closedBy,
           r1Pc, r2Pc, reads, sent,
           stopReturned, commands, scenario, sideVars, dropped, pongs, loggedIn, pings, faults,
           writeErr, lost >>

quicVars == << quicConn, quicStream >>
supVars  == << supPc, supConn, connectionAttempts, consecutiveAuthFailures,
               lastConnectionSuccessful, retryDelay, stale, wireStale,
               decoderErr >>
\* the supervisor's variables a frame dispatch leaves alone
loopVars == << supPc, supConn, connectionAttempts, consecutiveAuthFailures,
               lastConnectionSuccessful, retryDelay >>
sessVars == << dialed, closedSess, brokenSess, writeDead >>
connVars == << sockClosed, chanClosed, queue, closedBy >>
taskVars == << hPc, hId, hSess, r1Pc, r2Pc, reads >>
uiVars   == << stopReturned, commands >>
envVars  == << scenario, sideVars, dropped, pongs, loggedIn, pings, faults, lost >>

\* the variables of the session core
mainVars == << quicVars, clientConns, shouldAutoReconnect, supVars, sessVars,
               first, sent, connVars, taskVars, uiVars, scenario, dropped,
               pongs, loggedIn, pings, faults, lost, writeErr >>

\* what the actions of each component model leave alone
writerRest == << codecVars, discVars, authVars, lockVars, cfgVars, raceVars, mutexVars, mainVars >>
codecRest  == << writerVars, discVars, authVars, lockVars, cfgVars, raceVars, mutexVars, mainVars >>
discRest   == << writerVars, codecVars, authVars, lockVars, cfgVars, raceVars, mutexVars, mainVars >>
authRest   == << writerVars, codecVars, discVars, lockVars, cfgVars, raceVars, mutexVars, mainVars >>
lockRest   == << writerVars, codecVars, discVars, authVars, cfgVars, raceVars, mutexVars, mainVars >>
cfgRest == << writerVars, codecVars, discVars, authVars, lockVars, raceVars, mutexVars, mainVars >>
raceRest == << writerVars, codecVars, discVars, authVars, lockVars, cfgVars, mutexVars, mainVars >>
mutexRest == << writerVars, codecVars, discVars, authVars, lockVars, cfgVars, raceVars, mainVars >>

MainInit(sc) ==
    /\ quicConn = Nil
    /\ quicStream = Nil
    /\ clientConns = [i \in Ids |-> Nil]
    /\ shouldAutoReconnect = TRUE
    /\ supPc = "check"
    /\ supConn = Nil
    /\ connectionAttempts = 0
    /\ consecutiveAuthFailures = 0
    /\ lastConnectionSuccessful = FALSE
    /\ retryDelay = 0
    /\ stale = FALSE
    /\ wireStale = FALSE
    /\ decoderErr = FALSE
    /\ dialed = 0
    /\ closedSess = {}
    /\ brokenSess = {}
    /\ writeDead = {}
    /\ first = [s \in Sessions |-> "none"]
    /\ hPc = [h \in Handlers |-> "idle"]
    /\ hId = [h \in Handlers |-> Nil]
    /\ hSess = [h \in Handlers |-> Nil]
    /\ sockClosed = [h \in Handlers |-> FALSE]
    /\ chanClosed = [h \in Handlers |-> FALSE]
    /\ queue = [h \in Handlers |-> 0]
    /\ closedBy = [h \in Handlers |-> <<"none", Nil>>]
    /\ r1Pc = [h \in Handlers |-> "off"]
    /\ r2Pc = [h \in Handlers |-> "off"]
    /\ reads = [h \in Handlers |-> 0]
    /\ sent = [h \in Handlers |-> << >>]
    /\ stopReturned = FALSE
    /\ commands = 0
    /\ scenario = sc
    /\ dropped = FALSE
    /\ pongs = << >>
    /\ loggedIn \in BOOLEAN
    /\ pings = 0
    /\ faults = 0
    /\ writeErr = FALSE
    /\ lost = "none"

\* the writers are not looked at byte by byte
WritersOff ==
    /\ wPc = << >>
    /\ wOff = << >>
    /\ quicMutexHolder = Nil
    /\ wire = << >>
    /\ serialized = TRUE

\* the codec is not used
CodecOff ==
    /\ cFrames = << >>
    /\ cWritten = 0
    /\ cBuf = << >>
    /\ cRead = << >>

\* no address is being selected
DiscoveryOff ==
    /\ dPc = "off"
    /\ dIn = << >>
    /\ dNext = 0
    /\ dScores = << >>
    /\ dAddr = << >>

\* nothing is being authenticated
AuthOff ==
    /\ aPc = "off"
    /\ aCfg = << >>
    /\ aKeyring = ""
    /\ aStream = 0
    /\ aWire = << >>
    /\ aResp = << >>
    /\ aResult = << >>

\* no process takes the instance lock
LockOff ==
    /\ lPc = << >>
    /\ lFd = << >>
    /\ lPath = Nil
    /\ lLock = << >>
    /\ lFiles = 0

\* no configuration is loaded or saved
CfgOff ==
    /\ kPc = "off"
    /\ kFile = << >>
    /\ kCfg = << >>
    /\ kRing = << >>
    /\ kStart = << >>

\* no CLOSE frame is being followed
RaceOff ==
    closeSeen = {}

\* no task is followed through its lock operations
MutexOff ==
    /\ mCall = << >>
    /\ mAt = << >>
    /\ mWant = << >>
    /\ mHeld = << >>

\* every component model but the named one is at rest
SideOffExcept(component) ==
    /\ IF component = "writers" THEN TRUE ELSE WritersOff
    /\ IF component = "codec" THEN TRUE ELSE CodecOff
    /\ IF component = "discovery" THEN TRUE ELSE DiscoveryOff
    /\ IF component = "auth" THEN TRUE ELSE AuthOff
    /\ IF component = "lock" THEN TRUE ELSE LockOff
    /\ IF component = "config" THEN TRUE ELSE CfgOff
    /\ IF component = "race" THEN TRUE ELSE RaceOff
    /\ IF component = "mutex" THEN TRUE ELSE MutexOff

\* the component models are at rest
SideOff == SideOffExcept("none")

InitWith(sc) == MainInit(sc) /\ SideOff

Init == \E sc \in Scenarios : InitWith(sc)

(* ------------------------- transport (quic-go) ------------------------- *)
\* a write on stream s is accepted by the transport
CanWrite(s) == s \notin closedSess /\ s \notin brokenSess /\ s \notin writeDead

\* a read on stream s fails with a non-timeout error
ReadFails(s) == s \in closedSess \/ s \in brokenSess

(* ------------------------------ writer --------------------------------- *)
\* sendMessage (part_006:401-424) returns nil iff a stream is installed and
\* the write on it succeeds
SendOk == quicStream # Nil /\ CanWrite(quicStream)

\* the first frame of each stream after a frame of type t is written to s
FirstAfterWrite(s, t) ==
    IF first[s] = "none" THEN [first EXCEPT ![s] = t] ELSE first

\* sendMessage returns the error of quicStream.Write (part_006:417-421)
\* while the supervisor is reading that very stream
WriteErrAfterSend ==
    writeErr \/ (quicStream # Nil /\ ~CanWrite(quicStream)
                    /\ supPc = "running" /\ supConn = quicStream)

\* sendMessage(&Message{Type: t, ID: hId[h]}) called by a task of handler h.
\* The payload of a DATA frame is the chunk that relayFromConnToQuic has just
\* read, named by its number among the reads of that socket; with any other
\* frame the number of chunks read so far is recorded
sendMessage(t, h) ==
    /\ first' = IF SendOk THEN FirstAfterWrite(quicStream, t) ELSE first
    /\ sent' = IF SendOk
                  THEN [sent EXCEPT ![h] =
                           Append(@, [type |-> t, stream |-> quicStream,
                                      chunk |-> IF t = "data"
                                                   THEN reads[h] + 1
                                                   ELSE reads[h]])]
                  ELSE sent
    /\ writeErr' = WriteErrAfterSend

\* getRetryDelay as it would be with the second step starting one attempt
\* late
getRetryDelayLate(attempt, authFailed, notLoggedIn) ==
    IF notLoggedIn THEN 30
    ELSE IF authFailed THEN 60
    ELSE IF attempt <= 2 THEN 0
    ELSE IF attempt <= 4 THEN 5
    ELSE IF attempt <= 7 THEN 15
    ELSE IF attempt <= 10 THEN 30
    ELSE IF attempt <= 15 THEN 60
    ELSE 300

\* getRetryDelay (part_006:84-110), in seconds
getRetryDelay(attempt, authFailed, notLoggedIn) ==
    IF notLoggedIn THEN 30
    ELSE IF authFailed THEN 60
    ELSE IF attempt = 1 THEN 0
    ELSE IF attempt <= 4 THEN 5
    ELSE IF attempt <= 7 THEN 15
    ELSE IF attempt <= 10 THEN 30
    ELSE IF attempt <= 15 THEN 60
    ELSE 300

(* --------------------------- sub-connections --------------------------- *)
Registered == { i \in Ids : clientConns[i] # Nil }
Objects    == { clientConns[i] : i \in Registered }

\* the loop "for id, cc := range clientConns { cc.conn.Close();
\* close(cc.dataChan); delete(clientConns, id) }" run by `who`
\* (part_006:312-318, 340-346, 460-466)
CloseAllClientConns(who) ==
    /\ sockClosed' = [h \in Handlers |-> sockClosed[h] \/ h \in Objects]
    /\ chanClosed' = [h \in Handlers |-> chanClosed[h] \/ h \in Objects]
    /\ closedBy' = [h \in Handlers |->
                        IF h \in Objects THEN <<who, Nil>> ELSE closedBy[h]]
    /\ clientConns' = [i \in Ids |-> Nil]

\* the same critical section as it would be without delete(clientConns, id)
CloseClientConnKeepingEntry(id, who) ==
    IF clientConns[id] # Nil
       THEN LET o == clientConns[id] IN
            /\ sockClosed' = [sockClosed EXCEPT ![o] = TRUE]
            /\ chanClosed' = [chanClosed EXCEPT ![o] = TRUE]
            /\ closedBy' = [closedBy EXCEPT ![o] = who]
            /\ UNCHANGED clientConns
       ELSE UNCHANGED << clientConns, sockClosed, chanClosed, closedBy >>

\* "if cc, ok := clientConns[id]; ok { cc.conn.Close(); close(cc.dataChan);
\* delete(clientConns, id) }" (part_006:379-383, 430-434)
CloseClientConn(id, who) ==
    IF clientConns[id] # Nil
       THEN LET o == clientConns[id] IN
            /\ sockClosed' = [sockClosed EXCEPT ![o] = TRUE]
            /\ chanClosed' = [chanClosed EXCEPT ![o] = TRUE]
            /\ closedBy' = [closedBy EXCEPT ![o] = who]
            /\ clientConns' = [clientConns EXCEPT ![id] = Nil]
       ELSE UNCHANGED << clientConns, sockClosed, chanClosed, closedBy >>

\* sendCloseMessage(id) (part_006:426-436), called by a task of handler h:
\* the CLOSE frame is sent whether or not id is registered and the result
\* of the send is ignored; then whatever object is registered under id is
\* closed and removed
sendCloseMessage(id, h) ==
    /\ sendMessage("close", h)
    /\ CloseClientConn(id, <<"cleanup", h>>)


(* ----------------------- ConnectQuicServer loop ------------------------ *)
\* the failure tail shared by the dial, stream and authentication branches:
\* time.Sleep(retryDelay); connectionAttempts++; continue
SupBackoff(delay) ==
    /\ retryDelay' = delay
    /\ connectionAttempts' = connectionAttempts + 1
    /\ supPc' = "backoff"

\* part_006:117-128, flag false: status "Stopped", sleep, check again
SupCheckStopped ==
    /\ supPc = "check"
    /\ ~shouldAutoReconnect
    /\ supPc' = "stopped"
    /\ retryDelay' = 5
    /\ UNCHANGED << supConn, connectionAttempts, consecutiveAuthFailures,
                    lastConnectionSuccessful, stale, wireStale,
                    decoderErr >>
    /\ UNCHANGED << quicVars, clientConns, shouldAutoReconnect, sessVars, first, sent,
                    connVars, taskVars, uiVars, envVars, writeErr >>

\* the 5 s sleep of the stopped branch ends, or a backoff sleep ends
SupWake ==
    /\ supPc \in {"stopped", "backoff"}
    /\ supPc' = "check"
    /\ retryDelay' = 0
    /\ UNCHANGED << supConn, connectionAttempts, consecutiveAuthFailures,
                    lastConnectionSuccessful, stale, wireStale,
                    decoderErr >>
    /\ UNCHANGED << quicVars, clientConns, shouldAutoReconnect, sessVars, first, sent,
                    connVars, taskVars, uiVars, envVars, writeErr >>

\* part_006:117-123, flag true: go on to discovery
SupCheckEnabled ==
    /\ supPc = "check"
    /\ shouldAutoReconnect
    /\ supPc' = "discover"
    /\ UNCHANGED << supConn, connectionAttempts, consecutiveAuthFailures,
                    lastConnectionSuccessful, retryDelay, stale,
                    wireStale, decoderErr >>
    /\ UNCHANGED << quicVars, clientConns, shouldAutoReconnect, sessVars, first, sent,
                    connVars, taskVars, uiVars, envVars, writeErr >>

\* part_006:130-175: GetOptimalServer returns an address (it never fails)
SupDiscover ==
    /\ supPc = "discover"
    /\ supPc' = "dial"
    /\ UNCHANGED << supConn, connectionAttempts, consecutiveAuthFailures,
                    lastConnectionSuccessful, retryDelay, stale,
                    wireStale, decoderErr >>
    /\ UNCHANGED << quicVars, clientConns, shouldAutoReconnect, sessVars, first, sent,
                    connVars, taskVars, uiVars, envVars, writeErr >>

\* part_006:177-189: quic.DialAddr fails
SupDialFail ==
    /\ supPc = "dial"
    /\ faults < scenario.faults
    /\ faults' = faults + 1
    /\ SupBackoff(getRetryDelay(connectionAttempts + 1, FALSE, FALSE))
    /\ UNCHANGED << supConn, consecutiveAuthFailures, lastConnectionSuccessful,
                    stale, wireStale, decoderErr >>
    /\ UNCHANGED << quicVars, clientConns, shouldAutoReconnect, sessVars, first, sent,
                    connVars, taskVars, uiVars, scenario, sideVars, dropped, pongs, lost, loggedIn, pings,
                    writeErr >>

\* part_006:177, 191-196: quic.DialAddr returns a new session
SupDialOk ==
    /\ supPc = "dial"
    /\ dialed < scenario.sessions
    /\ dialed' = dialed + 1
    /\ supConn' = dialed + 1
    /\ supPc' = "open"
    /\ UNCHANGED << connectionAttempts, consecutiveAuthFailures,
                    lastConnectionSuccessful, retryDelay, stale,
                    wireStale, decoderErr >>
    /\ UNCHANGED << quicVars, clientConns, shouldAutoReconnect, closedSess,
                    brokenSess, writeDead, first, sent, connVars, taskVars,
                    uiVars, envVars, writeErr >>

\* part_006:198-209: OpenStreamSync fails; the session is closed
SupOpenStreamFail ==
    /\ supPc = "open"
    /\ supConn \in brokenSess \/ faults < scenario.faults
    /\ faults' = IF supConn \in brokenSess THEN faults ELSE faults + 1
    /\ closedSess' = closedSess \cup {supConn}
    /\ SupBackoff(getRetryDelay(connectionAttempts + 1, FALSE, FALSE))
    /\ UNCHANGED << supConn, consecutiveAuthFailures, lastConnectionSuccessful,
                    stale, wireStale, decoderErr >>
    /\ UNCHANGED << quicVars, clientConns, shouldAutoReconnect, dialed,
                    brokenSess, writeDead, first, sent, connVars, taskVars,
                    uiVars, scenario, sideVars, dropped, pongs, lost, loggedIn, pings, writeErr >>

\* part_006:198, 211-214: the stream opens and is installed as the live one
SupInstall ==
    /\ supPc = "open"
    /\ supConn \notin brokenSess
    /\ quicConn' = supConn
    /\ quicStream' = supConn
    /\ supPc' = "auth"
    /\ UNCHANGED << supConn, connectionAttempts, consecutiveAuthFailures,
                    lastConnectionSuccessful, retryDelay, stale,
                    wireStale, decoderErr >>
    /\ UNCHANGED << clientConns, shouldAutoReconnect, sessVars, first, sent,
                    connVars, taskVars, uiVars, envVars, writeErr >>

\* the authentication-failure branch as it would be if it asked for the
\* delay of a transport failure
SupAuthFailedAsTransport ==
    /\ consecutiveAuthFailures' = consecutiveAuthFailures + 1
    /\ closedSess' = closedSess \cup {supConn}
    /\ SupBackoff(getRetryDelay(connectionAttempts + 1, FALSE, ~loggedIn))
    /\ UNCHANGED << supConn, lastConnectionSuccessful, stale, wireStale,
                    decoderErr >>
    /\ UNCHANGED << quicVars, clientConns, shouldAutoReconnect, dialed,
                    brokenSess, writeDead, connVars, taskVars,
                    uiVars, scenario, sideVars, dropped, pongs, lost, loggedIn, pings, writeErr >>

\* part_006:219-241: authenticateWithServer returned false
SupAuthFailed ==
    /\ consecutiveAuthFailures' = consecutiveAuthFailures + 1
    /\ closedSess' = closedSess \cup {supConn}
    /\ SupBackoff(getRetryDelay(connectionAttempts + 1, TRUE, ~loggedIn))
    /\ UNCHANGED << supConn, lastConnectionSuccessful, stale, wireStale,
                    decoderErr >>
    /\ UNCHANGED << quicVars, clientConns, shouldAutoReconnect, dialed,
                    brokenSess, writeDead, connVars, taskVars,
                    uiVars, scenario, sideVars, dropped, pongs, lost, loggedIn, pings, writeErr >>

\* authenticateWithServer, part_006:482-516: no token, or the AUTH write
\* (encoder.Encode on the stream itself) fails: return false
SupAuthNotSent ==
    /\ supPc = "auth"
    /\ ~loggedIn \/ ~CanWrite(supConn)
    /\ SupAuthFailed
    /\ UNCHANGED << first, sent, faults >>

\* authenticateWithServer, part_006:503-516: the AUTH frame is written
SupAuthSend ==
    /\ supPc = "auth"
    /\ loggedIn
    /\ CanWrite(supConn)
    /\ first' = FirstAfterWrite(supConn, "auth")
    /\ supPc' = "authwait"
    /\ UNCHANGED << supConn, connectionAttempts, consecutiveAuthFailures,
                    lastConnectionSuccessful, retryDelay, stale,
                    wireStale, decoderErr >>
    /\ UNCHANGED << quicVars, clientConns, shouldAutoReconnect, sessVars,
                    connVars, taskVars, sent, uiVars, envVars, writeErr >>

\* authenticateWithServer, part_006:518-551: ERROR, another frame, a read
\* error or the 10 s timeout
SupAuthRejected ==
    /\ supPc = "authwait"
    /\ ReadFails(supConn) \/ faults < scenario.faults
    /\ faults' = IF ReadFails(supConn) THEN faults ELSE faults + 1
    /\ SupAuthFailed
    /\ UNCHANGED << first, sent >>

\* authenticateWithServer returns true on AUTH_SUCCESS; part_006:243-254,
\* and quicReader starts with a decoder of its own (part_006:277).  The
\* decoder of authenticateWithServer (part_006:523) reads the stream in
\* blocks: a frame the server sent right behind AUTH_SUCCESS may be in the
\* block it read, and stays in its buffer (ahead)
SupAuthSuccess ==
    /\ supPc = "authwait"
    /\ ~ReadFails(supConn)
    /\ connectionAttempts' = 0
    /\ consecutiveAuthFailures' = 0
    /\ lastConnectionSuccessful' = TRUE
    /\ supPc' = "running"
    /\ stale' = FALSE
    /\ wireStale' = FALSE
    /\ decoderErr' = FALSE
    /\ \E ahead \in BOOLEAN :
          /\ ahead => (scenario.gaps > 0 /\ lost = "none")
          /\ lost' = IF ahead THEN "readahead" ELSE lost
    /\ UNCHANGED << supConn, retryDelay >>
    /\ UNCHANGED << quicVars, clientConns, shouldAutoReconnect, sessVars, first, sent,
                    connVars, taskVars, uiVars, scenario, sideVars, dropped, pongs, loggedIn, pings,
                    faults, writeErr >>

\* quicReader has returned; part_006:256-272.  lastConnectionSuccessful was
\* set at line 246, so the quick 2 s branch is the one taken
SupReaderReturned ==
    /\ supPc' = "backoff"
    /\ retryDelay' = IF lastConnectionSuccessful THEN 2
                     ELSE getRetryDelay(1, FALSE, FALSE)
    /\ lastConnectionSuccessful' = FALSE
    /\ stale' = FALSE
    /\ wireStale' = FALSE
    /\ decoderErr' = FALSE
    /\ UNCHANGED << supConn, connectionAttempts, consecutiveAuthFailures >>


(* ------------------------------ quicReader ----------------------------- *)
\* the read-error branch as it would be without the loop over the table
quicReaderReadErrorKeepingTable ==
    /\ supPc = "running"
    /\ ~decoderErr
    /\ ReadFails(supConn)
    /\ SupReaderReturned
    /\ writeErr' = FALSE
    /\ UNCHANGED << quicVars, clientConns, shouldAutoReconnect, sessVars,
                    first, sent, connVars, taskVars, uiVars, envVars >>

\* part_006:328-349: Decode fails with a non-timeout error.  Every
\* sub-connection in the table is closed and removed, the reader returns
quicReaderReadError ==
    /\ supPc = "running"
    /\ ~decoderErr
    /\ ReadFails(supConn)
    /\ CloseAllClientConns("reader")
    /\ SupReaderReturned
    /\ writeErr' = FALSE
    /\ UNCHANGED << quicVars, shouldAutoReconnect, sessVars, first, sent, taskVars,
                    uiVars, envVars >>
    /\ UNCHANGED queue

\* part_006:289-319: the health monitor saw no frame for more than ten
\* minutes; the reader closes every sub-connection and returns.  Neither the
\* session nor the stream is closed here
quicReaderHealthFail ==
    /\ supPc = "running"
    /\ stale
    /\ CloseAllClientConns("health")
    /\ SupReaderReturned
    /\ writeErr' = FALSE
    /\ UNCHANGED << quicVars, shouldAutoReconnect, sessVars, first, sent, taskVars,
                    uiVars, envVars >>
    /\ UNCHANGED queue

\* part_006:323-333: the 60 s read deadline expires and Decode returns the
\* timeout error: continue.  encoding/json keeps the error of a failed read
\* in the Decoder, and every later Decode returns it without reading
quicReaderTimeout ==
    /\ supPc = "running"
    /\ scenario.gaps > 0
    /\ decoderErr' = TRUE
    /\ UNCHANGED << loopVars, stale, wireStale >>
    /\ UNCHANGED << quicVars, clientConns, shouldAutoReconnect, sessVars, first, sent,
                    connVars, taskVars, uiVars, envVars, writeErr >>

\* the server sends nothing for more than ten minutes, so
\* time.Since(lastMessageTime) exceeds ten minutes (part_006:291, 299).  A
\* handleConnect goroutine that the last CONNECT started is through by
\* then: its dial is given at most ten seconds (connection.go:19)
quicReaderIdle ==
    /\ supPc = "running"
    /\ ~stale
    /\ \A h \in Handlers : hPc[h] \notin {"dial", "confirm", "initfail"}
    /\ stale' = TRUE
    /\ wireStale' = TRUE
    /\ UNCHANGED << loopVars, decoderErr >>
    /\ UNCHANGED << quicVars, clientConns, shouldAutoReconnect, sessVars, first, sent,
                    connVars, taskVars, uiVars, envVars, writeErr >>

\* a frame (a PING, or another one) arrives while the decoder holds an
\* error: Decode returns the error, the frame is never read
\* (part_006:326-333)
quicReaderUnread(ping) ==
    /\ supPc = "running"
    /\ decoderErr
    /\ ping => pings < scenario.pings
    /\ pings' = IF ping THEN pings + 1 ELSE pings
    /\ wireStale' = FALSE
    /\ lost' = IF lost = "none" THEN "timeout" ELSE lost
    /\ UNCHANGED << loopVars, stale, decoderErr >>
    /\ UNCHANGED << quicVars, clientConns, shouldAutoReconnect, sessVars, first, sent,
                    connVars, taskVars, uiVars, scenario, sideVars, dropped, pongs, loggedIn,
                    faults, writeErr >>

\* the server keeps sending frames for ten minutes while the decoder holds
\* an error: lastMessageTime (part_006:353) is not updated
quicReaderDeaf ==
    /\ supPc = "running"
    /\ decoderErr
    /\ ~stale
    /\ \A h \in Handlers : hPc[h] \notin {"dial", "confirm", "initfail"}
    /\ stale' = TRUE
    /\ wireStale' = FALSE
    /\ lost' = IF lost = "none" THEN "timeout" ELSE lost
    /\ UNCHANGED << loopVars, decoderErr >>
    /\ UNCHANGED << quicVars, clientConns, shouldAutoReconnect, sessVars, first, sent,
                    connVars, taskVars, uiVars, scenario, sideVars, dropped, pongs, loggedIn, pings,
                    faults, writeErr >>

\* part_006:351-353, 363-376, 394-396: a frame that changes nothing but
\* lastMessageTime: an unknown type, or DATA for an id that is not in the
\* table
quicReaderNoOp ==
    /\ supPc = "running"
    /\ ~decoderErr
    /\ stale
    /\ stale' = FALSE
    /\ wireStale' = FALSE
    /\ UNCHANGED << loopVars, decoderErr >>
    /\ UNCHANGED << quicVars, clientConns, shouldAutoReconnect, sessVars, first, sent,
                    connVars, taskVars, uiVars, envVars, writeErr >>

\* identifiers the server has used in a CONNECT so far.  Identifiers are
\* opaque to the agent, so a CONNECT carries a used one or the least unused
UsedIds == { hId[h] : h \in { g \in Handlers : hPc[g] # "idle" } }

\* part_006:359-362: CONNECT(id): go handleConnect(msg).  Frames already
\* buffered by the decoder are dispatched even after the session was closed
quicReaderConnect(id, h) ==
    /\ supPc = "running"
    /\ ~decoderErr
    /\ h <= scenario.handlers
    /\ hPc[h] = "idle"
    /\ \A g \in Handlers : g < h => hPc[g] # "idle"
    /\ id <= Cardinality(UsedIds) + 1
    /\ stale' = FALSE
    /\ wireStale' = FALSE
    /\ UNCHANGED decoderErr
    /\ hPc' = [hPc EXCEPT ![h] = "dial"]
    /\ hId' = [hId EXCEPT ![h] = id]
    /\ hSess' = [hSess EXCEPT ![h] = supConn]
    /\ UNCHANGED << r1Pc, r2Pc, reads >>
    /\ UNCHANGED << quicVars, clientConns, shouldAutoReconnect, loopVars,
                    sessVars, first, sent, connVars, uiVars, envVars,
                    writeErr >>

\* the DATA branch as it would be if a full queue were emptied to make room
quicReaderDataFlushing(id, decoded) ==
    /\ supPc = "running"
    /\ ~decoderErr
    /\ clientConns[id] # Nil
    /\ stale' = FALSE
    /\ wireStale' = FALSE
    /\ UNCHANGED decoderErr
    /\ queue' = [queue EXCEPT ![clientConns[id]] =
                    IF ~decoded THEN @
                    ELSE IF @ < QueueCap THEN @ + 1 ELSE 0]
    /\ dropped' = (dropped \/ (decoded /\ queue[clientConns[id]] >= QueueCap))
    /\ UNCHANGED << sockClosed, chanClosed, closedBy >>
    /\ UNCHANGED << quicVars, clientConns, shouldAutoReconnect, loopVars,
                    sessVars, first, sent, taskVars, uiVars, scenario, sideVars, pongs,
                    loggedIn, pings, faults, lost, writeErr >>

\* part_006:363-376: DATA(id) for a registered id.  decoded: the payload is
\* well-formed base64 (line 366); if not, the frame is ignored.  The
\* payload is offered to the inbound queue without blocking (select with a
\* default branch): queued if there is room, dropped if the queue is full
quicReaderData(id, decoded) ==
    /\ supPc = "running"
    /\ ~decoderErr
    /\ clientConns[id] # Nil
    /\ stale' = FALSE
    /\ wireStale' = FALSE
    /\ UNCHANGED decoderErr
    /\ queue' = [queue EXCEPT ![clientConns[id]] =
                    IF decoded /\ @ < QueueCap THEN @ + 1 ELSE @]
    /\ dropped' = (dropped \/ (decoded /\ queue[clientConns[id]] >= QueueCap))
    /\ UNCHANGED << sockClosed, chanClosed, closedBy >>
    /\ UNCHANGED << quicVars, clientConns, shouldAutoReconnect, loopVars,
                    sessVars, first, sent, taskVars, uiVars, scenario, sideVars, pongs,
                    loggedIn, pings, faults, lost, writeErr >>

\* the CLOSE branch as it would be without the delete
quicReaderCloseKeepingEntry(id) ==
    /\ supPc = "running"
    /\ ~decoderErr
    /\ stale' = FALSE
    /\ wireStale' = FALSE
    /\ UNCHANGED decoderErr
    /\ IF clientConns[id] # Nil
          THEN /\ sockClosed' = [sockClosed EXCEPT ![clientConns[id]] = TRUE]
               /\ chanClosed' = [chanClosed EXCEPT ![clientConns[id]] = TRUE]
               /\ closedBy' = [closedBy EXCEPT ![clientConns[id]] =
                                  <<"frame", Nil>>]
          ELSE UNCHANGED << sockClosed, chanClosed, closedBy >>
    /\ UNCHANGED << quicVars, clientConns, shouldAutoReconnect, loopVars,
                    sessVars, first, sent, taskVars, uiVars, envVars,
                    writeErr >>
    /\ UNCHANGED queue

\* part_006:377-384: CLOSE(id): if id is in the table its socket and its
\* queue are closed and the entry is deleted; if not, nothing is done
quicReaderClose(id) ==
    /\ supPc = "running"
    /\ ~decoderErr
    /\ stale' = FALSE
    /\ wireStale' = FALSE
    /\ UNCHANGED decoderErr
    /\ CloseClientConn(id, <<"frame", Nil>>)
    /\ UNCHANGED << quicVars, shouldAutoReconnect, loopVars, sessVars, first, sent,
                    taskVars, uiVars, envVars, writeErr >>
    /\ UNCHANGED queue

\* the PING branch as it would be if it sent the frame back as it came
quicReaderPingEcho(id) ==
    /\ supPc = "running"
    /\ ~decoderErr
    /\ pings < scenario.pings
    /\ pings' = pings + 1
    /\ pongs' = Append(pongs, [ping |-> id, type |-> "ping",
                               pong |-> IF SendOk THEN id ELSE Nil])
    /\ first' = IF SendOk THEN FirstAfterWrite(quicStream, "ping") ELSE first
    /\ writeErr' = (SendOk /\ writeErr)
    /\ IF SendOk
          THEN /\ stale' = FALSE
               /\ wireStale' = FALSE
               /\ UNCHANGED << loopVars, decoderErr >>
          ELSE SupReaderReturned
    /\ UNCHANGED << quicVars, clientConns, shouldAutoReconnect, sessVars,
                    connVars, taskVars, sent, uiVars, scenario, sideVars, dropped, lost,
                    loggedIn, faults >>

\* part_006:385-393: PING(id): sendMessage(&Message{Type: "pong", ID:
\* msg.ID}); on error the reader returns (without touching the table)
quicReaderPing(id) ==
    /\ supPc = "running"
    /\ ~decoderErr
    /\ pings < scenario.pings
    /\ pings' = pings + 1
    /\ pongs' = Append(pongs, [ping |-> id, type |-> "pong",
                               pong |-> IF SendOk THEN id ELSE Nil])
    /\ first' = IF SendOk THEN FirstAfterWrite(quicStream, "pong") ELSE first
    /\ writeErr' = (SendOk /\ writeErr)
    /\ IF SendOk
          THEN /\ stale' = FALSE
               /\ wireStale' = FALSE
               /\ UNCHANGED << loopVars, decoderErr >>
          ELSE SupReaderReturned
    /\ UNCHANGED << quicVars, clientConns, shouldAutoReconnect, sessVars,
                    connVars, taskVars, sent, uiVars, scenario, sideVars, dropped, lost,
                    loggedIn, faults >>

(* ---------------------------- handleConnect ---------------------------- *)
\* the dial-failure branch as it would be if it returned without
\* sendCloseMessage
handleConnectDialFailSilent(h) ==
    /\ hPc[h] = "dial"
    /\ hPc' = [hPc EXCEPT ![h] = "dialfailed"]
    /\ UNCHANGED << hId, hSess, r1Pc, r2Pc, reads >>
    /\ UNCHANGED << quicVars, shouldAutoReconnect, supVars, sessVars,
                    uiVars, envVars >>
    /\ UNCHANGED << clientConns, connVars, first, sent, writeErr >>

\* connection.go:63-69: the dial fails: sendCloseMessage(msg.ID), return
handleConnectDialFail(h) ==
    /\ hPc[h] = "dial"
    /\ sendCloseMessage(hId[h], h)
    /\ hPc' = [hPc EXCEPT ![h] = "dialfailed"]
    /\ UNCHANGED << hId, hSess, r1Pc, r2Pc, reads >>
    /\ UNCHANGED << quicVars, shouldAutoReconnect, supVars, sessVars,
                    uiVars, envVars >>
    /\ UNCHANGED queue

\* connection.go:63, 81-86: the dial succeeds; the new Connection is stored
\* under msg.ID, replacing whatever was registered there
handleConnectRegister(h) ==
    /\ hPc[h] = "dial"
    /\ clientConns' = [clientConns EXCEPT ![hId[h]] = h]
    /\ hPc' = [hPc EXCEPT ![h] = "confirm"]
    /\ UNCHANGED << hId, hSess, r1Pc, r2Pc, reads >>
    /\ UNCHANGED << quicVars, shouldAutoReconnect, supVars, sessVars, first, sent,
                    connVars, uiVars, envVars, writeErr >>

\* handleConnect as it would be if it started the relay tasks without
\* looking at the result of the CONNECTED write
handleConnectConfirmUnchecked(h) ==
    /\ hPc[h] = "confirm"
    /\ sendMessage("connected", h)
    /\ hPc' = [hPc EXCEPT ![h] = "relaying"]
    /\ r1Pc' = [r1Pc EXCEPT ![h] = "run"]
    /\ r2Pc' = [r2Pc EXCEPT ![h] = "run"]
    /\ UNCHANGED << hId, hSess, reads, connVars >>
    /\ UNCHANGED << quicVars, clientConns, shouldAutoReconnect, supVars,
                    sessVars, uiVars, envVars >>

\* connection.go:88-112: sendMessage(connected).  On error: conn.Close() and
\* return (the entry stays in the table).  Otherwise the initial data, if
\* any, is written to the socket: on error the handler goes on to
\* sendCloseMessage, else both relay tasks are started
handleConnectConfirm(h) ==
    /\ hPc[h] = "confirm"
    /\ sendMessage("connected", h)
    /\ IF ~SendOk
          THEN /\ sockClosed' = [sockClosed EXCEPT ![h] = TRUE]
               /\ hPc' = [hPc EXCEPT ![h] = "unconfirmed"]
               /\ UNCHANGED << r1Pc, r2Pc >>
          ELSE /\ UNCHANGED sockClosed
               /\ \E initialWriteFails \in BOOLEAN :
                    IF initialWriteFails
                       THEN /\ hPc' = [hPc EXCEPT ![h] = "initfail"]
                            /\ UNCHANGED << r1Pc, r2Pc >>
                       ELSE /\ hPc' = [hPc EXCEPT ![h] = "relaying"]
                            /\ r1Pc' = [r1Pc EXCEPT ![h] = "run"]
                            /\ r2Pc' = [r2Pc EXCEPT ![h] = "run"]
    /\ UNCHANGED << hId, hSess, reads, chanClosed, queue, closedBy >>
    /\ UNCHANGED << quicVars, clientConns, shouldAutoReconnect, supVars,
                    sessVars, uiVars, envVars >>

\* connection.go:104-108: the initial-data write failed: sendCloseMessage
handleConnectInitFail(h) ==
    /\ hPc[h] = "initfail"
    /\ sendCloseMessage(hId[h], h)
    /\ hPc' = [hPc EXCEPT ![h] = "closed"]
    /\ UNCHANGED << hId, hSess, r1Pc, r2Pc, reads >>
    /\ UNCHANGED << quicVars, shouldAutoReconnect, supVars, sessVars,
                    uiVars, envVars >>
    /\ UNCHANGED queue

(* ------------------------------ relay tasks ---------------------------- *)
\* reconnect.go:58-77: a non-empty read from the socket is sent as DATA; a
\* failed send ends the loop
relayFromConnToQuicData(h) ==
    /\ r1Pc[h] = "run"
    /\ ~sockClosed[h]
    /\ reads[h] < scenario.reads
    /\ reads' = [reads EXCEPT ![h] = @ + 1]
    /\ sendMessage("data", h)
    /\ r1Pc' = [r1Pc EXCEPT ![h] = IF SendOk THEN "run" ELSE "exit"]
    /\ UNCHANGED << hPc, hId, hSess, r2Pc >>
    /\ UNCHANGED << quicVars, clientConns, shouldAutoReconnect, supVars,
                    sessVars, connVars, uiVars, envVars >>

\* reconnect.go:46-52, 58-62: the read fails (socket closed by the agent,
\* EOF or an error of the destination); the deferred sendCloseMessage runs.
\* Also the deferred call after a failed send
relayFromConnToQuicExit(h) ==
    /\ r1Pc[h] \in {"run", "exit"}
    /\ sendCloseMessage(hId[h], h)
    /\ r1Pc' = [r1Pc EXCEPT ![h] = "done"]
    /\ UNCHANGED << hPc, hId, hSess, r2Pc, reads >>
    /\ UNCHANGED << quicVars, shouldAutoReconnect, supVars, sessVars,
                    uiVars, envVars >>
    /\ UNCHANGED queue

\* reconnect.go:90-100: a slice is taken from the queue and written to the
\* socket
relayFromChanToConnWrite(h) ==
    /\ r2Pc[h] = "run"
    /\ queue[h] > 0
    /\ ~sockClosed[h]
    /\ queue' = [queue EXCEPT ![h] = @ - 1]
    /\ UNCHANGED << sockClosed, chanClosed, closedBy >>
    /\ UNCHANGED << quicVars, clientConns, shouldAutoReconnect, supVars,
                    sessVars, first, sent, taskVars, uiVars, envVars,
                    writeErr >>

\* reconnect.go:82-88, 95-99: the write of a dequeued slice fails; the
\* deferred sendCloseMessage runs
relayFromChanToConnWriteErr(h) ==
    /\ r2Pc[h] = "run"
    /\ queue[h] > 0
    /\ queue' = [queue EXCEPT ![h] = @ - 1]
    /\ sendCloseMessage(hId[h], h)
    /\ r2Pc' = [r2Pc EXCEPT ![h] = "done"]
    /\ UNCHANGED << hPc, hId, hSess, r1Pc, reads >>
    /\ UNCHANGED << quicVars, shouldAutoReconnect, supVars, sessVars,
                    uiVars, envVars >>

\* reconnect.go:82-90: the queue is closed and drained, the range loop
\* ends; the deferred sendCloseMessage runs
relayFromChanToConnEnd(h) ==
    /\ r2Pc[h] = "run"
    /\ chanClosed[h]
    /\ queue[h] = 0
    /\ sendCloseMessage(hId[h], h)
    /\ r2Pc' = [r2Pc EXCEPT ![h] = "done"]
    /\ UNCHANGED << hPc, hId, hSess, r1Pc, reads >>
    /\ UNCHANGED << quicVars, shouldAutoReconnect, supVars, sessVars,
                    uiVars, envVars >>
    /\ UNCHANGED queue


(* ----------------------------- tray commands --------------------------- *)
\* The tray's event loop (part_012:108-180) runs one command at a time.
\* Each command first writes the flag under autoReconnectMutex and then
\* does the rest under quicMutex.  Only the supervisor's check reads the
\* flag and that check touches nothing else a command touches, so the two
\* critical sections of a command are taken as one step.

\* DisconnectQuic as it would be without the loop over the table
DisconnectQuicKeepingTable ==
    /\ commands < scenario.commands
    /\ commands' = commands + 1
    /\ shouldAutoReconnect' = FALSE
    /\ closedSess' = closedSess \cup ({quicConn, quicStream} \ {Nil})
    /\ quicConn' = Nil
    /\ quicStream' = Nil
    /\ stopReturned' = TRUE
    /\ UNCHANGED << clientConns, connVars, supVars, dialed, brokenSess,
                    writeDead, first, sent, taskVars, envVars, writeErr >>

\* DisconnectQuic (part_006:440-467): the flag is cleared, the installed
\* session and stream are closed and cleared, every table entry is closed
\* and removed
DisconnectQuic ==
    /\ commands < scenario.commands
    /\ commands' = commands + 1
    /\ shouldAutoReconnect' = FALSE
    /\ closedSess' = closedSess \cup ({quicConn, quicStream} \ {Nil})
    /\ quicConn' = Nil
    /\ quicStream' = Nil
    /\ CloseAllClientConns("stop")
    /\ stopReturned' = TRUE
    /\ UNCHANGED << supVars, dialed, brokenSess, writeDead, first, sent, queue,
                    taskVars, envVars, writeErr >>

\* ReconnectQuic as it would be if it did not set the flag
ReconnectQuicKeepingFlag ==
    /\ commands < scenario.commands
    /\ commands' = commands + 1
    /\ loggedIn
    /\ closedSess' = closedSess \cup ({quicConn, quicStream} \ {Nil})
    /\ quicConn' = Nil
    /\ quicStream' = Nil
    /\ stopReturned' = FALSE
    /\ UNCHANGED << clientConns, shouldAutoReconnect, supVars, dialed,
                    brokenSess, writeDead, first, sent, connVars, taskVars,
                    envVars, writeErr >>

\* ReconnectQuic (reconnect.go:7-29): the flag is set, the installed session
\* and stream are closed and cleared; the table is left alone.  The tray
\* offers it only to a logged-in user (part_012:125-137, 143-162)
ReconnectQuic ==
    /\ commands < scenario.commands
    /\ commands' = commands + 1
    /\ loggedIn
    /\ shouldAutoReconnect' = TRUE
    /\ closedSess' = closedSess \cup ({quicConn, quicStream} \ {Nil})
    /\ quicConn' = Nil
    /\ quicStream' = Nil
    /\ stopReturned' = FALSE
    /\ UNCHANGED << clientConns, supVars, dialed, brokenSess, writeDead, first, sent,
                    connVars, taskVars, envVars, writeErr >>

(* ------------------------------ environment ---------------------------- *)
\* sessions some task still refers to
Referenced == {quicConn, supConn} \ {Nil}

\* the connection of a session fails (network loss, the server closes it)
NetworkFail(s) ==
    /\ s \in Referenced
    /\ faults < scenario.faults
    /\ faults' = faults + 1
    /\ s \notin brokenSess
    /\ s \notin closedSess
    /\ brokenSess' = brokenSess \cup {s}
    /\ UNCHANGED << dialed, closedSess, writeDead >>
    /\ UNCHANGED << quicVars, clientConns, shouldAutoReconnect, supVars, first, sent,
                    connVars, taskVars, uiVars, scenario, sideVars, dropped, pongs, lost, loggedIn, pings,
                    writeErr >>

\* the server cancels its receive side of the control stream (STOP_SENDING):
\* the agent's writes fail, its reads go on
PeerStopsReading(s) ==
    /\ s \in Referenced
    /\ faults < scenario.faults
    /\ faults' = faults + 1
    /\ s \notin brokenSess
    /\ s \notin closedSess
    /\ s \notin writeDead
    /\ writeDead' = writeDead \cup {s}
    /\ UNCHANGED << dialed, closedSess, brokenSess >>
    /\ UNCHANGED << quicVars, clientConns, shouldAutoReconnect, supVars, first, sent,
                    connVars, taskVars, uiVars, scenario, sideVars, dropped, pongs, lost, loggedIn, pings,
                    writeErr >>

(* ---------------------------- specification ---------------------------- *)
Supervisor ==
    \/ SupCheckStopped
    \/ SupWake
    \/ SupCheckEnabled
    \/ SupDiscover
    \/ SupDialFail
    \/ SupDialOk
    \/ SupOpenStreamFail
    \/ SupInstall
    \/ SupAuthNotSent
    \/ SupAuthSend
    \/ SupAuthRejected
    \/ SupAuthSuccess

Reader ==
    \/ quicReaderReadError
    \/ quicReaderHealthFail
    \/ quicReaderTimeout
    \/ quicReaderIdle
    \/ \E ping \in BOOLEAN : quicReaderUnread(ping)
    \/ quicReaderDeaf
    \/ quicReaderNoOp
    \/ \E id \in Ids, h \in Handlers : quicReaderConnect(id, h)
    \/ \E id \in Ids, decoded \in BOOLEAN : quicReaderData(id, decoded)
    \/ \E id \in Ids : quicReaderClose(id)
    \/ \E id \in Ids : quicReaderPing(id)

Tasks ==
    \E h \in Handlers :
        \/ handleConnectDialFail(h)
        \/ handleConnectRegister(h)
        \/ handleConnectConfirm(h)
        \/ handleConnectInitFail(h)
        \/ relayFromConnToQuicData(h)
        \/ relayFromConnToQuicExit(h)
        \/ relayFromChanToConnWrite(h)
        \/ relayFromChanToConnWriteErr(h)
        \/ relayFromChanToConnEnd(h)

Tray ==
    \/ DisconnectQuic
    \/ ReconnectQuic

Environment ==
    \E s \in Sessions : NetworkFail(s) \/ PeerStopsReading(s)

Next == Supervisor \/ Reader \/ Tasks \/ Tray \/ Environment

Spec == Init /\ [][Next]_vars

(* ----------------------- fair specification ---------------------------- *)
\* Steps the Go scheduler and the timers of the code guarantee: a runnable
\* goroutine runs, a sleep ends, a call with a deadline returns.  Frames,
\* faults and tray commands are up to the environment and get no fairness.
SupervisorProgress ==
    \/ SupCheckStopped
    \/ SupWake
    \/ SupCheckEnabled
    \/ SupDiscover
    \/ SupDialFail
    \/ SupDialOk
    \/ SupOpenStreamFail
    \/ SupInstall
    \/ SupAuthNotSent
    \/ SupAuthSend
    \/ SupAuthRejected
    \/ SupAuthSuccess

\* what handleConnect and the relay tasks of handler h do without waiting
\* for the destination: a relay blocked in a read of an open socket may
\* stay there
TaskProgress(h) ==
    \/ handleConnectDialFail(h)
    \/ handleConnectRegister(h)
    \/ handleConnectConfirm(h)
    \/ handleConnectInitFail(h)
    \/ (r1Pc[h] = "exit" \/ sockClosed[h]) /\ relayFromConnToQuicExit(h)
    \/ relayFromChanToConnWrite(h)
    \/ relayFromChanToConnWriteErr(h)
    \/ relayFromChanToConnEnd(h)

FairInit == InitWith(FairScenario)

FairSpec ==
    /\ FairInit
    /\ [][Next]_vars
    /\ WF_vars(SupervisorProgress)
    /\ WF_vars(quicReaderReadError)
    /\ WF_vars(quicReaderHealthFail)
    /\ WF_vars(quicReaderIdle)
    /\ \A h \in Handlers : WF_vars(TaskProgress(h))

(* ------------------------------ properties ----------------------------- *)
\* the CLOSE frames the tasks of handler h wrote
Closes(h) ==
    Cardinality({ k \in 1..Len(sent[h]) : sent[h][k].type = "close" })

\* handleConnect of h stored its Connection in the table (connection.go:81-86)
Inserted(h) ==
    hPc[h] \in {"confirm", "initfail", "unconfirmed", "closed", "relaying"}

\* handleConnect of h has returned and so has every relay task it started
Ended(h) ==
    \/ hPc[h] \in {"dialfailed", "unconfirmed", "closed"}
    \/ hPc[h] = "relaying" /\ r1Pc[h] = "done" /\ r2Pc[h] = "done"

\* sessions dialed, not closed by the agent and not failed
Live == (1..dialed) \ (closedSess \cup brokenSess)

\* C1: the sub-connection table is non-empty only while quicReader is
\* serving an authenticated session (the Supervisor is RUNNING)
C1_TableOnlyWhileRunning ==
    Registered # {} => supPc = "running"

\* C2: every sub-connection that was inserted into the table gets exactly
\* one outbound CLOSE: never two, and one once all its tasks have ended
C2_ExactlyOneClose ==
    \A h \in Handlers :
        Inserted(h) => /\ Closes(h) <= 1
                       /\ Ended(h) => Closes(h) = 1

\* C3: between the return of DisconnectQuic and the next ReconnectQuic no
\* step inserts an entry into the sub-connection table
C3_NoInsertAfterStop ==
    [][ (stopReturned /\ stopReturned') =>
            \A i \in Ids : clientConns'[i] # Nil =>
                              clientConns'[i] = clientConns[i] ]_vars

\* C4: while shouldAutoReconnect is false no session is installed as the
\* live session, no AUTH is sent and no session is brought to RUNNING
C4_FlagGatesSession ==
    [][ (~shouldAutoReconnect /\ ~shouldAutoReconnect') =>
            /\ quicConn' # quicConn => quicConn' = Nil
            /\ supPc' = "authwait" => supPc = "authwait"
            /\ supPc' = "running" => supPc = "running" ]_vars

\* C5: at most one dialed session is live at any time: when a new one is
\* dialed every earlier one has been closed
C5_AtMostOneLiveSession ==
    Cardinality(Live) <= 1

\* C6: the first frame written to any control stream is AUTH
C6_AuthIsFirstFrame ==
    \A s \in Sessions : first[s] \in {"none", "auth"}

\* C7: for every sub-connection a DATA frame is written only after its
\* CONNECTED frame was written, and the outbound relay is started only
\* after the CONNECTED write succeeded
C7_ConnectedBeforeData ==
    \A h \in Handlers :
        /\ \A k \in 1..Len(sent[h]) :
              sent[h][k].type = "data" =>
                  \E j \in 1..(k - 1) : sent[h][j].type = "connected"
        /\ r1Pc[h] # "off" =>
              \E j \in 1..Len(sent[h]) : sent[h][j].type = "connected"

\* a DATA frame of a sub-connection has been written
C7_DataWritten ==
    \E h \in Handlers :
        \E k \in 1..Len(sent[h]) : sent[h][k].type = "data"

\* C8: once sendMessage has returned a write error on the session the
\* reader serves, the Supervisor leaves RUNNING
C8_WriteErrorEndsSession ==
    writeErr ~> (supPc # "running")

\* a step in which handler h handles an error of its own destination: the
\* dial failed, the initial data could not be written, a socket read or
\* write failed
LocalError(h) ==
    \/ handleConnectDialFail(h)
    \/ handleConnectInitFail(h)
    \/ relayFromConnToQuicExit(h)
    \/ relayFromChanToConnWriteErr(h)

\* C9: an error of one sub-connection's destination neither ends the
\* session nor changes another sub-connection: its socket, its queue and
\* its table entry stay as they are
C9_LocalErrorIsolated ==
    [][ \A h \in Handlers :
          LocalError(h) =>
            /\ supPc' = supPc
            /\ quicConn' = quicConn
            /\ closedSess' = closedSess
            /\ \A g \in Handlers \ {h} :
                  /\ sockClosed'[g] = sockClosed[g]
                  /\ chanClosed'[g] = chanClosed[g]
            /\ \A i \in Ids :
                  clientConns[i] \notin {Nil, h} =>
                      clientConns'[i] = clientConns[i] ]_vars

StartPending ==
    /\ commands > 0
    /\ ~stopReturned
    /\ \/ supPc \in {"stopped", "backoff"}
       \/ supPc \in {"auth", "authwait", "running"} /\ supConn \in closedSess

Schedule(n) ==
    CASE n = 1 -> 0
      [] n \in 2..4 -> 5
      [] n \in 5..7 -> 15
      [] n \in 8..10 -> 30
      [] n \in 11..15 -> 60
      [] n >= 16 -> 300

C14_ReadErrorTeardown ==
    [][ ( /\ supPc = "running"
          /\ supPc' = "backoff"
          /\ ~decoderErr
          /\ ~stale
          /\ ReadFails(supConn)
          /\ pings' = pings ) =>
            /\ \A i \in Ids : clientConns'[i] = Nil
            /\ \A h \in Objects : sockClosed'[h] /\ chanClosed'[h]
            /\ retryDelay' = 2 ]_vars

\* the reader closed two sub-connections on a read error and the supervisor
\* sleeps 2 s
C14_TwoClosedByReader ==
    /\ supPc = "backoff"
    /\ retryDelay = 2
    /\ \A h \in Handlers : closedBy[h] = <<"reader", Nil>>

\* C15: quicReader returns on the health check only after more than ten
\* minutes in which the server sent no frame; it then leaves every
\* sub-connection of the table closed and the table empty, and the supervisor
\* sleeps 2 s
C15_HealthFailOnlyWhenSilent ==
    [][ ( /\ supPc = "running"
          /\ supPc' = "backoff"
          /\ stale
          /\ (decoderErr \/ ~ReadFails(supConn))
          /\ pings' = pings ) =>
            /\ wireStale
            /\ \A i \in Ids : clientConns'[i] = Nil
            /\ \A h \in Objects : sockClosed'[h] /\ chanClosed'[h]
            /\ retryDelay' = 2 ]_vars

\* DATA(id) with a well-formed payload can be dispatched: the reader is
\* serving a session, its decoder works and id is in the table
DataDispatchable(id) ==
    /\ supPc = "running"
    /\ ~decoderErr
    /\ clientConns[id] # Nil

C17_CloseFrame ==
    [][ \A id \in Ids :
          quicReaderClose(id) =>
            /\ clientConns'[id] = Nil
            /\ \A i \in Ids \ {id} : clientConns'[i] = clientConns[i]
            /\ \A h \in Handlers :
                  IF h = clientConns[id]
                     THEN sockClosed'[h] /\ chanClosed'[h]
                     ELSE /\ sockClosed'[h] = sockClosed[h]
                          /\ chanClosed'[h] = chanClosed[h]
            /\ queue' = queue
            /\ supPc' = "running"
            /\ quicConn' = quicConn
            /\ quicStream' = quicStream
            /\ closedSess' = closedSess ]_vars

\* a CLOSE frame closed and removed a sub-connection whose relay tasks were
\* running, and the session is still served
C17_ClosedByFrame ==
    /\ supPc = "running"
    /\ \E h \in Handlers :
          /\ closedBy[h] = <<"frame", Nil>>
          /\ hPc[h] = "relaying"
          /\ sockClosed[h]
          /\ chanClosed[h]
          /\ clientConns[hId[h]] = Nil

\* C18: every PING that arrived on the stream of a RUNNING session has got
\* its PONG: one PONG carrying the id of the PING was written, or the write
\* of that PONG failed (and the reader returned)
C18_EveryPingAnswered ==
    /\ Len(pongs) = pings
    /\ \A k \in 1..Len(pongs) : pongs[k].pong \in {Nil, pongs[k].ping}

\* C19: no frame that arrives after a read timeout is left undecoded
C19_TimeoutLosesNoFrame ==
    lost # "timeout"

\* C20: no frame the server sends after AUTH_SUCCESS is skipped by the
\* reader
C20_NoFrameSkipped ==
    lost # "readahead"

\* a DATA frame
IsData(f) == f.type = "data"

\* the DATA frames among the first n frames the tasks of handler h wrote, in
\* the order written
DataFrames(h, n) == SelectSeq(SubSeq(sent[h], 1, n), IsData)

\* C21: the DATA frames written for a sub-connection carry the chunks read
\* from its destination socket in the order read, each once; and when a
\* CLOSE is written for it, every chunk read until then has been written
C21_RelayPreservesBytes ==
    \A h \in Handlers :
        /\ \A k \in 1..Len(DataFrames(h, Len(sent[h]))) :
              DataFrames(h, Len(sent[h]))[k].chunk = k
        /\ \A c \in 1..Len(sent[h]) :
              sent[h][c].type = "close" =>
                  Len(DataFrames(h, c)) = sent[h][c].chunk

(* ------------------- the writers of one control stream ----------------- *)
\* A stream has just been installed (part_006:211-214) and
\* authenticateWithServer is about to write AUTH on it, while handleConnect
\* goroutines and relay tasks started on the session before are still alive
\* and call sendMessage.  Whether the transport runs concurrent Write calls
\* on one stream one after the other is not decided by this repository:
\* both are explored.
Senders == 1..MaxSenders
\* the writer that is authenticateWithServer
Authenticator == MaxSenders + 1
Writers == Senders \cup {Authenticator}

WritersStart ==
    /\ wPc = [w \in Writers |-> "idle"]
    /\ wOff = [w \in Writers |-> 0]
    /\ quicMutexHolder = Nil
    /\ wire = << >>
    /\ serialized \in BOOLEAN

\* sendMessage, part_006:402-415: quicMutex.Lock(); the stream is there; the
\* frame is marshalled
sendMessageLock(w) ==
    /\ w \in Senders
    /\ wPc[w] = "idle"
    /\ quicMutexHolder = Nil
    /\ quicMutexHolder' = w
    /\ wPc' = [wPc EXCEPT ![w] = "locked"]
    /\ UNCHANGED << wOff, wire, serialized, writerRest >>

\* quicStream.Write(data) in sendMessage (part_006:417), holding quicMutex;
\* encoder.Encode(authMsg) in authenticateWithServer (part_006:511-512),
\* which makes one Write call on the stream and takes no lock
streamWriteBegin(w) ==
    /\ wPc[w] = IF w = Authenticator THEN "idle" ELSE "locked"
    /\ serialized => \A v \in Writers : wPc[v] # "writing"
    /\ wPc' = [wPc EXCEPT ![w] = "writing"]
    /\ UNCHANGED << wOff, quicMutexHolder, wire, serialized, writerRest >>

\* the Write call hands the next byte of the frame to the stream
streamWriteByte(w) ==
    /\ wPc[w] = "writing"
    /\ wOff[w] < FrameLen
    /\ wOff' = [wOff EXCEPT ![w] = @ + 1]
    /\ wire' = Append(wire, <<w, wOff[w] + 1>>)
    /\ UNCHANGED << wPc, quicMutexHolder, serialized, writerRest >>

\* the Write call returns; sendMessage returns and its deferred
\* quicMutex.Unlock() runs (part_006:403, 423)
streamWriteEnd(w) ==
    /\ wPc[w] = "writing"
    /\ wOff[w] = FrameLen
    /\ wPc' = [wPc EXCEPT ![w] = "done"]
    /\ quicMutexHolder' = IF w = Authenticator THEN quicMutexHolder ELSE Nil
    /\ UNCHANGED << wOff, wire, serialized, writerRest >>

WriterInit ==
    /\ MainInit(FairScenario)
    /\ loggedIn
    /\ WritersStart
    /\ SideOffExcept("writers")

WriterNext ==
    \E w \in Writers :
        \/ sendMessageLock(w)
        \/ streamWriteBegin(w)
        \/ streamWriteByte(w)
        \/ streamWriteEnd(w)

WriterSpec == WriterInit /\ [][WriterNext]_vars

\* C22: a task that is inside a Write call on the control stream holds
\* quicMutex, and the bytes on the stream are whole frames one after the
\* other
C22_WritesUnderMutex ==
    /\ \A w \in DOMAIN wPc : wPc[w] = "writing" => quicMutexHolder = w
    /\ \A k \in 1..Len(wire) :
          wire[k][2] > 1 => /\ k > 1
                            /\ wire[k - 1] = <<wire[k][1], wire[k][2] - 1>>

(* ------------------------ binary message codec ------------------------- *)
Bytes == 0..255

\* binary.Write(w, binary.BigEndian, uint16(n)) and uint32(n)
PutUint16(n) == << (n \div 256) % 256, n % 256 >>
PutUint32(n) == << (n \div 16777216) % 256, (n \div 65536) % 256,
                   (n \div 256) % 256, n % 256 >>

\* the length fields read little-endian
Uint16LittleEndian(b) == b[2] * 256 + b[1]

\* binary.Read(r, binary.BigEndian, &idLen) and &dataLen
Uint16(b) == b[1] * 256 + b[2]
Uint32(b) == ((b[1] * 256 + b[2]) * 256 + b[3]) * 256 + b[4]

\* the bytes of b from position from on
Rest(b, from) == SubSeq(b, from, Len(b))

\* WriteBinaryMessage (connection.go:148-188) on a writer that never fails:
\* the bytes written.  A field is written when its length, converted to the
\* width of the length prefix, is not zero (uint32(len) is len for every
\* slice whose length is a number of the model checker)
WriteBinaryMessage(msg) ==
    LET idLen   == Len(msg.ID) % 65536
        addrLen == Len(msg.Addr) % 65536
        dataLen == Len(msg.Data)
    IN  << msg.Type >>
        \o PutUint16(idLen) \o (IF idLen > 0 THEN msg.ID ELSE << >>)
        \o PutUint16(addrLen) \o (IF addrLen > 0 THEN msg.Addr ELSE << >>)
        \o PutUint32(dataLen) \o (IF dataLen > 0 THEN msg.Data ELSE << >>)

\* the result of a failed read
ReadError == [err |-> TRUE]

\* ReadBinaryMessage (connection.go:191-238) on a reader holding the bytes
\* b: the message and the bytes left in the reader, or an error when the
\* reader ends early
ReadBinaryMessage(b) ==
    IF Len(b) < 3 THEN ReadError
    ELSE
    LET idLen == Uint16(Rest(b, 2))
        b2    == Rest(b, 4 + idLen)
    IN  IF Len(b) < 3 + idLen \/ Len(b2) < 2 THEN ReadError
        ELSE
        LET addrLen == Uint16(b2)
            b3      == Rest(b2, 3 + addrLen)
        IN  IF Len(b2) < 2 + addrLen \/ Len(b3) < 4 THEN ReadError
            ELSE
            LET dataLen == Uint32(b3)
            IN  IF Len(b3) < 4 + dataLen THEN ReadError
                ELSE [err  |-> FALSE,
                      msg  |-> [Type |-> b[1],
                                ID   |-> SubSeq(b, 4, 3 + idLen),
                                Addr |-> SubSeq(b2, 3, 2 + addrLen),
                                Data |-> SubSeq(b3, 5, 4 + dataLen)],
                      rest |-> Rest(b3, 5 + dataLen)]

\* strings and byte slices of the lengths explored
Fields == UNION { [1..n -> 0..MaxByte] : n \in 0..MaxFieldLen }

\* BinaryMessage values (connection.go:139-144) with a type code of 0..10
Messages ==
    [Type : 0..MsgTypeUIDRegister, ID : Fields, Addr : Fields, Data : Fields]

\* the messages explored as the second of two
SecondMessages ==
    { m \in Messages : m.Type \in {0, MsgTypeUIDRegister} }

CodecStart ==
    /\ cFrames \in Messages \X SecondMessages
    /\ cWritten = 0
    /\ cBuf = << >>
    /\ cRead = << >>

\* the next message is written to the stream
CodecWrite ==
    /\ cWritten < Len(cFrames)
    /\ cWritten' = cWritten + 1
    /\ cBuf' = cBuf \o WriteBinaryMessage(cFrames[cWritten + 1])
    /\ UNCHANGED << cFrames, cRead, codecRest >>

\* a message is read from the stream once one has been written whole
CodecRead ==
    /\ Len(cRead) < cWritten
    /\ cRead' = Append(cRead, ReadBinaryMessage(cBuf))
    /\ cBuf' = IF ReadBinaryMessage(cBuf).err THEN cBuf
               ELSE ReadBinaryMessage(cBuf).rest
    /\ UNCHANGED << cFrames, cWritten, codecRest >>

CodecInit ==
    /\ MainInit(FairScenario)
    /\ loggedIn
    /\ CodecStart
    /\ SideOffExcept("codec")

CodecNext == CodecWrite \/ CodecRead

CodecSpec == CodecInit /\ [][CodecNext]_vars

\* every length below 2^16 is read back from its two-byte prefix, and so are
\* the lengths n and 32768 * n from their four-byte prefix
LengthPrefixExact ==
    \A n \in 0..65535 :
        /\ Uint16(PutUint16(n)) = n
        /\ Uint32(PutUint32(n)) = n
        /\ Uint32(PutUint32(32768 * n)) = 32768 * n
        /\ \A k \in 1..2 : PutUint16(n)[k] \in Bytes
        /\ \A k \in 1..4 : PutUint32(32768 * n)[k] \in Bytes

\* C23: what ReadBinaryMessage returns for the bytes of WriteBinaryMessage
\* is the message written, type, id, addr and data; two messages written one
\* after the other are read in that order; and when as many messages have
\* been read as were written no byte is left.  The length prefixes are
\* exact over the whole range of a two-byte length
C23_BinaryRoundTrip ==
    /\ LengthPrefixExact
    /\ \A k \in 1..Len(cRead) :
          /\ ~cRead[k].err
          /\ cRead[k].msg = cFrames[k]
    /\ Len(cRead) = cWritten => cBuf = << >>

\* two different messages with non-empty fields have been written back to
\* back and both have been read
C23_TwoFramesRead ==
    /\ Len(cRead) = 2
    /\ cFrames[1] # cFrames[2]
    /\ cFrames[1].ID # << >>
    /\ cFrames[1].Data # << >>
    /\ cFrames[2].Addr # << >>
    /\ cBuf = << >>

(* --------------------------- server discovery -------------------------- *)
\* the most servers the API lists
MaxServers == 3
\* a failed probe counts as 5 * time.Second (server_discovery.go:85)
ProbeFailedMs == 5000
\* servers above this utilization are skipped (server_discovery.go:129)
OverloadPercent == 90

\* no address yet
NoAddr == << >>
\* part_006:153
FallbackAddr == << "us.vyx.network:8443" >>
\* part_006:138
DebugAddr == << "127.0.0.1:8443" >>
\* the address of the server at position i of the API's answer
ServerAddr(i) == << "server", i >>

\* utilization_percent values explored: two that give equal scores with the
\* latencies below, the threshold, and two above it
Utilizations == {30, 40, OverloadPercent, 91, 95}
\* milliseconds a probe takes (3000: the dial deadline)
Elapsed == {0, 150, 3000}

\* what the request to /api/servers comes to (server_discovery.go:44-61)
Outcomes == {"requestError", "status", "undecodable", "ok"}

\* ServerInfo values (server_discovery.go:14-26) at position i of the answer
ServerInfos(i) ==
    [Address : {ServerAddr(i)}, Status : {"healthy", "degraded"},
     UtilizationPercent : Utilizations]

\* the answers of the API: lists of 0..MaxServers servers
ServerLists ==
    UNION { { l \in [1..n -> UNION { ServerInfos(i) : i \in 1..n }] :
                \A i \in 1..n : l[i] \in ServerInfos(i) } : n \in 0..MaxServers }

\* DiscoverServers (server_discovery.go:38-65): the error, or the servers
DiscoverServers(in) ==
    IF in.outcome # "ok" \/ Len(in.servers) = 0
        THEN [err |-> TRUE, servers |-> << >>]
        ELSE [err |-> FALSE, servers |-> in.servers]

IsHealthy(s) == s.Status = "healthy"

\* SelectBestServer (server_discovery.go:100-110): the list it works on,
\* every server kept, not only the healthy ones
KeptUnfiltered(servers) == servers

\* SelectBestServer (server_discovery.go:100-110): the list it works on
Kept(servers) ==
    IF SelectSeq(servers, IsHealthy) = << >> THEN servers
    ELSE SelectSeq(servers, IsHealthy)

\* TestLatency that reports the time the dial took, failed or not
TestLatencyElapsed(dialOk, elapsed) == elapsed

\* TestLatency (server_discovery.go:68-91), in milliseconds
TestLatency(dialOk, elapsed) == IF dialOk THEN elapsed ELSE ProbeFailedMs

\* totalScore (server_discovery.go:138-141), in hundredths:
\* (loadScore * 0.6) + ((latency_ms / 10.0) * 0.4)
totalScore(loadScore, latencyMs) == (loadScore * 60) + (latencyMs * 4)

\* server_discovery.go:155-160: the first server of the list that no later
\* one is strictly less utilized than
RECURSIVE LeastLoadedFrom(_, _, _)
LeastLoadedFrom(list, best, k) ==
    IF k > Len(list) THEN best
    ELSE LeastLoadedFrom(list,
             IF list[k].UtilizationPercent < best.UtilizationPercent
                THEN list[k] ELSE best, k + 1)

\* server_discovery.go:166-171: the first score of the slice that no later
\* one is strictly below
RECURSIVE LowestScoreFrom(_, _, _)
LowestScoreFrom(list, best, k) ==
    IF k > Len(list) THEN best
    ELSE LowestScoreFrom(list,
             IF list[k].score < best.score THEN list[k] ELSE best, k + 1)

DiscoveryStart ==
    /\ dPc = "call"
    /\ dIn \in [debug : BOOLEAN, outcome : Outcomes, servers : ServerLists]
    /\ dIn.debug => dIn.outcome = "ok" /\ dIn.servers = << >>
    /\ dIn.outcome # "ok" => dIn.servers = << >>
    /\ dNext = 0
    /\ dScores = << >>
    /\ dAddr = NoAddr

\* part_006:137-140: in debug mode ConnectQuicServer does not call
\* GetOptimalServer
ConnectQuicServerDebugAddr ==
    /\ dPc = "call"
    /\ dIn.debug
    /\ dPc' = "done"
    /\ dAddr' = DebugAddr
    /\ UNCHANGED << dIn, dNext, dScores, discRest >>

\* GetOptimalServer that returns nothing when discovery fails
GetOptimalServerNoFallback ==
    /\ dPc = "call"
    /\ ~dIn.debug
    /\ DiscoverServers(dIn).err
    /\ dPc' = "done"
    /\ dAddr' = NoAddr
    /\ UNCHANGED << dIn, dNext, dScores, discRest >>

\* GetOptimalServer (server_discovery.go:189-193): discovery failed
GetOptimalServerFallback ==
    /\ dPc = "call"
    /\ ~dIn.debug
    /\ DiscoverServers(dIn).err
    /\ dPc' = "done"
    /\ dAddr' = FallbackAddr
    /\ UNCHANGED << dIn, dNext, dScores, discRest >>

\* SelectBestServer (server_discovery.go:112-116): one server kept
SelectBestServerOnly ==
    /\ dPc = "call"
    /\ ~dIn.debug
    /\ ~DiscoverServers(dIn).err
    /\ Len(Kept(DiscoverServers(dIn).servers)) = 1
    /\ dPc' = "done"
    /\ dAddr' = Kept(DiscoverServers(dIn).servers)[1].Address
    /\ UNCHANGED << dIn, dNext, dScores, discRest >>

\* SelectBestServer (server_discovery.go:125-127): several servers kept, the
\* loop over them starts
SelectBestServerLoop ==
    /\ dPc = "call"
    /\ ~dIn.debug
    /\ ~DiscoverServers(dIn).err
    /\ Len(Kept(DiscoverServers(dIn).servers)) > 1
    /\ dPc' = "loop"
    /\ dNext' = 1
    /\ UNCHANGED << dIn, dScores, dAddr, discRest >>

\* server_discovery.go:128-132: the next server is overloaded and skipped
SelectBestServerSkip ==
    /\ dPc = "loop"
    /\ dNext <= Len(Kept(dIn.servers))
    /\ Kept(dIn.servers)[dNext].UtilizationPercent > OverloadPercent
    /\ dNext' = dNext + 1
    /\ UNCHANGED << dPc, dIn, dScores, dAddr, discRest >>

\* server_discovery.go:134-147: the next server is probed and scored
SelectBestServerProbe(dialOk, elapsed) ==
    /\ dPc = "loop"
    /\ dNext <= Len(Kept(dIn.servers))
    /\ Kept(dIn.servers)[dNext].UtilizationPercent <= OverloadPercent
    /\ dNext' = dNext + 1
    /\ dScores' = Append(dScores,
          [server  |-> Kept(dIn.servers)[dNext],
           dialOk  |-> dialOk,
           elapsed |-> elapsed,
           latency |-> TestLatency(dialOk, elapsed),
           score   |-> totalScore(Kept(dIn.servers)[dNext].UtilizationPercent,
                                  TestLatency(dialOk, elapsed))])
    /\ UNCHANGED << dPc, dIn, dAddr, discRest >>

\* server_discovery.go:153-163: every server kept is overloaded
SelectBestServerLeastLoaded ==
    /\ dPc = "loop"
    /\ dNext > Len(Kept(dIn.servers))
    /\ dScores = << >>
    /\ dPc' = "done"
    /\ dAddr' = LeastLoadedFrom(Kept(dIn.servers), Kept(dIn.servers)[1], 2).Address
    /\ UNCHANGED << dIn, dNext, dScores, discRest >>

\* server_discovery.go:165-176: the lowest score
SelectBestServerLowestScore ==
    /\ dPc = "loop"
    /\ dNext > Len(Kept(dIn.servers))
    /\ dScores # << >>
    /\ dPc' = "done"
    /\ dAddr' = LowestScoreFrom(dScores, dScores[1], 2).server.Address
    /\ UNCHANGED << dIn, dNext, dScores, discRest >>

DiscoveryInit ==
    /\ MainInit(FairScenario)
    /\ loggedIn
    /\ DiscoveryStart
    /\ SideOffExcept("discovery")

DiscoveryNext ==
    \/ ConnectQuicServerDebugAddr
    \/ GetOptimalServerFallback
    \/ SelectBestServerOnly
    \/ SelectBestServerLoop
    \/ SelectBestServerSkip
    \/ \E dialOk \in BOOLEAN, elapsed \in Elapsed :
          SelectBestServerProbe(dialOk, elapsed)
    \/ SelectBestServerLeastLoaded
    \/ SelectBestServerLowestScore

DiscoverySpec == DiscoveryInit /\ [][DiscoveryNext]_vars

\* GetOptimalServer has returned (the call was made: not in debug mode)
Selected == dPc = "done" /\ ~dIn.debug

\* the position in the API's answer of the server with the address returned
ChosenAt == CHOOSE i \in 1..Len(dIn.servers) : dIn.servers[i].Address = dAddr

\* C24: the selection always comes to an end, and what GetOptimalServer
\* returns is the fallback address when the request fails, the status is
\* not 200, the body cannot be decoded or the list is empty, and the
\* address of one of the servers listed otherwise
C24_SelectEndpointNeverFails ==
    /\ dPc \in {"call", "loop"} => ENABLED DiscoveryNext
    /\ Selected =>
          IF dIn.outcome # "ok" \/ dIn.servers = << >>
             THEN dAddr = FallbackAddr
             ELSE \E i \in 1..Len(dIn.servers) : dIn.servers[i].Address = dAddr

\* the API answered 200 with an empty list and the fallback address was
\* returned
C24_EmptyListFallsBack ==
    /\ Selected
    /\ dIn.outcome = "ok"
    /\ dIn.servers = << >>
    /\ dAddr = FallbackAddr

\* the server at position i of the answer is one SelectBestServer is to
\* choose from: a healthy one, or any if none is healthy
InKept(i) ==
    (\E j \in 1..Len(dIn.servers) : dIn.servers[j].Status = "healthy")
        => dIn.servers[i].Status = "healthy"

KeptPositions == { i \in 1..Len(dIn.servers) : InKept(i) }

\* the positions of the servers that survive the filtering
Survivors ==
    { i \in KeptPositions :
        dIn.servers[i].UtilizationPercent <= OverloadPercent }

\* C25: the server chosen from a non-empty list is healthy if any is; its
\* utilization is at most 90% if that of any kept server is; if every kept
\* server is above 90% it is the least-utilized kept server, the earliest of
\* them, and no probe was made.  No server is probed that is not kept or
\* is above 90%
C25_Filtering ==
    /\ \A k \in 1..Len(dScores) :
          \E i \in Survivors : dIn.servers[i] = dScores[k].server
    /\ (Selected /\ dIn.outcome = "ok" /\ dIn.servers # << >>) =>
          /\ ChosenAt \in KeptPositions
          /\ Survivors # {} => ChosenAt \in Survivors
          /\ Survivors = {} =>
                /\ dScores = << >>
                /\ \A i \in KeptPositions :
                      /\ dIn.servers[ChosenAt].UtilizationPercent
                            <= dIn.servers[i].UtilizationPercent
                      /\ dIn.servers[ChosenAt].UtilizationPercent
                            = dIn.servers[i].UtilizationPercent
                                => ChosenAt <= i

\* an unhealthy server with a low utilization was listed first; the two
\* healthy ones have the same utilization above 90%; the first of the two
\* was returned
C25_LeastLoadedOfOverloaded ==
    /\ Selected
    /\ Len(dIn.servers) = 3
    /\ dIn.servers[1].Status = "degraded"
    /\ dIn.servers[1].UtilizationPercent = 30
    /\ KeptPositions = {2, 3}
    /\ Survivors = {}
    /\ dIn.servers[2].UtilizationPercent = dIn.servers[3].UtilizationPercent
    /\ ChosenAt = 2

\* the probe of the server at position i
ProbeOf(i) ==
    CHOOSE k \in 1..Len(dScores) : dScores[k].server = dIn.servers[i]

\* 100 times the score of the server at position i: 0.6 * utilization +
\* 0.4 * latency_ms / 10, a failed probe being 5000 ms
ScoreAt(i) ==
    60 * dIn.servers[i].UtilizationPercent
    + 4 * (IF dScores[ProbeOf(i)].dialOk THEN dScores[ProbeOf(i)].elapsed
           ELSE ProbeFailedMs)

\* C26: when some server survives the filtering the server chosen is a
\* survivor; when several servers were kept every survivor was probed once
\* and none has a lower score than the one chosen, nor the same score and
\* an earlier position
C26_MinimumScore ==
    (Selected /\ Survivors # {}) =>
        /\ ChosenAt \in Survivors
        /\ Cardinality(KeptPositions) > 1 =>
              /\ Len(dScores) = Cardinality(Survivors)
              /\ \A i \in Survivors :
                    /\ \E k \in 1..Len(dScores) :
                          dScores[k].server = dIn.servers[i]
                    /\ ScoreAt(ChosenAt) <= ScoreAt(i)
                    /\ ScoreAt(ChosenAt) = ScoreAt(i) => ChosenAt <= i

\* three servers were probed; the probe of the first failed at once, the
\* second and the third have the same score, and the second was returned
C26_TieAfterFailedProbe ==
    /\ Selected
    /\ Survivors = {1, 2, 3}
    /\ Len(dScores) = 3
    /\ ~dScores[1].dialOk
    /\ dScores[1].elapsed = 0
    /\ ScoreAt(2) = ScoreAt(3)
    /\ dIn.servers[2].UtilizationPercent # dIn.servers[3].UtilizationPercent
    /\ ChosenAt = 2

(* ----------------------------- authentication ------------------------- *)
\* config.json holds the user id, the OS keyring holds the token of that
\* user (part_005); LoadConfig runs at start, then authenticateWithServer
\* is called with each stream the supervisor opens, one after the other.
\* up: the keyring answers this call (keyring.Get may fail for other
\* reasons than a missing entry, part_005:57-64)

\* what the select of authenticateWithServer receives (part_006:530-551)
Responses == {"auth_success", "error", "ping", "readError", "timeout"}

\* SecureStorage.GetToken (part_005:56-71)
GetToken(up) ==
    IF up /\ aKeyring # "" THEN [err |-> FALSE, token |-> aKeyring]
    ELSE [err |-> TRUE, token |-> ""]

\* SecureStorage.HasToken (part_005:108-111)
HasToken(up) == ~GetToken(up).err

\* config.IsLoggedIn (build-gui.bat:198-211)
IsLoggedIn(up) ==
    /\ aCfg.UserID # ""
    /\ aCfg.APIToken # "" \/ HasToken(up)

AuthStart ==
    /\ aPc = "load"
    /\ aCfg \in [UserID : {"", "u"}, APIToken : {""}]
    /\ aKeyring \in {"", "t"}
    /\ aStream = 0
    /\ aWire = << >>
    /\ aResp = << >>
    /\ aResult = << >>

\* LoadConfig (build-gui.bat:145-158): the token is taken from the keyring
\* if there is a user id and the keyring gives it
LoadConfig(up) ==
    /\ aPc = "load"
    /\ aCfg' = [aCfg EXCEPT !.APIToken =
                   IF aCfg.UserID # "" /\ ~GetToken(up).err
                      THEN GetToken(up).token ELSE @]
    /\ aPc' = "idle"
    /\ UNCHANGED << aKeyring, aStream, aWire, aResp, aResult, authRest >>

\* authenticateWithServer (part_006:482-487): not logged in
authenticateNotLoggedIn(up) ==
    /\ aPc = "idle"
    /\ aStream < MaxSessions
    /\ ~IsLoggedIn(up)
    /\ aStream' = aStream + 1
    /\ aResp' = Append(aResp, "none")
    /\ aResult' = Append(aResult, FALSE)
    /\ UNCHANGED << aPc, aCfg, aKeyring, aWire, authRest >>

\* authenticateWithServer (part_006:503-515): encoder.Encode fails
authenticateWriteFailed(up) ==
    /\ aPc = "idle"
    /\ aStream < MaxSessions
    /\ IsLoggedIn(up)
    /\ aStream' = aStream + 1
    /\ aResp' = Append(aResp, "none")
    /\ aResult' = Append(aResult, FALSE)
    /\ UNCHANGED << aPc, aCfg, aKeyring, aWire, authRest >>

\* authenticateWithServer (part_006:503-516): the AUTH frame is written,
\* its ID is config.GlobalConfig.APIToken
authenticateWrite(up) ==
    /\ aPc = "idle"
    /\ aStream < MaxSessions
    /\ IsLoggedIn(up)
    /\ aStream' = aStream + 1
    /\ aWire' = Append(aWire, [stream |-> aStream + 1, type |-> "auth",
                               id |-> aCfg.APIToken])
    /\ aPc' = "wait"
    /\ UNCHANGED << aCfg, aKeyring, aResp, aResult, authRest >>

\* authenticateWithServer (part_006:518-551): the first frame decoded, a
\* read error or the 10 s timer, whichever the select receives
authenticateResponse(r) ==
    /\ aPc = "wait"
    /\ aResp' = Append(aResp, r)
    /\ aResult' = Append(aResult, r = "auth_success")
    /\ aPc' = "idle"
    /\ UNCHANGED << aCfg, aKeyring, aStream, aWire, authRest >>

AuthInit ==
    /\ MainInit(FairScenario)
    /\ loggedIn
    /\ AuthStart
    /\ SideOffExcept("auth")

AuthNext ==
    \/ \E up \in BOOLEAN : LoadConfig(up)
    \/ \E up \in BOOLEAN : authenticateNotLoggedIn(up)
    \/ \E up \in BOOLEAN : authenticateWriteFailed(up)
    \/ \E up \in BOOLEAN : authenticateWrite(up)
    \/ \E r \in Responses : authenticateResponse(r)

AuthSpec == AuthInit /\ [][AuthNext]_vars

\* the frames authenticateWithServer wrote to stream st
AuthFrames(st) == { k \in 1..Len(aWire) : aWire[k].stream = st }

\* the user has a bearer token: the keyring holds one for the user id of
\* the configuration
TokenPresent == aCfg.UserID # "" /\ aKeyring # ""

\* C27: when the user has a token, at most one AUTH frame is written to a
\* stream and its id is the token; authenticateWithServer returns true
\* exactly when what it received is AUTH_SUCCESS, which it waits for only
\* after writing AUTH
C27_OneAuthPerStream ==
    (aPc \in {"idle", "wait"} /\ TokenPresent) =>
        /\ \A st \in 1..aStream :
              /\ Cardinality(AuthFrames(st)) <= 1
              /\ \A k \in AuthFrames(st) : /\ aWire[k].type = "auth"
                                           /\ aWire[k].id = aKeyring
        /\ \A st \in 1..Len(aResult) :
              /\ aResult[st] <=> aResp[st] = "auth_success"
              /\ aResp[st] # "none" => Cardinality(AuthFrames(st)) = 1

\* C28: when the user has no token authenticateWithServer returns false
\* and writes nothing; every AUTH frame written has a non-empty id
C28_NoAuthWithoutToken ==
    /\ \A k \in 1..Len(aWire) : aWire[k].id # ""
    /\ (aPc \in {"idle", "wait"} /\ ~TokenPresent) =>
          /\ aWire = << >>
          /\ \A st \in 1..Len(aResult) : ~aResult[st]

(* ------------------------------ dial failure --------------------------- *)
\* the frames of type t that the tasks of handler h wrote
FramesOf(h, t) == { k \in 1..Len(sent[h]) : sent[h][k].type = t }

MaxProcs == 3
\* lock files created in one run
MaxFiles == 2

Procs == 1..MaxProcs
Files == 1..MaxFiles

LockStart ==
    /\ lPc = [p \in Procs |-> "idle"]
    /\ lFd = [p \in Procs |-> Nil]
    /\ lPath = Nil
    /\ lLock = [f \in Files |-> Nil]
    /\ lFiles = 0

\* AcquireInstanceLock (part_010:132-135): os.OpenFile(lockPath,
\* O_CREATE|O_RDWR): the file the path names, or a new one if it names none
OpenFile(p) ==
    /\ lPc[p] = "idle"
    /\ lPath = Nil => lFiles < MaxFiles
    /\ lFd' = [lFd EXCEPT ![p] = IF lPath = Nil THEN lFiles + 1 ELSE lPath]
    /\ lPath' = IF lPath = Nil THEN lFiles + 1 ELSE lPath
    /\ lFiles' = IF lPath = Nil THEN lFiles + 1 ELSE lFiles
    /\ lPc' = [lPc EXCEPT ![p] = "opened"]
    /\ UNCHANGED << lLock, lockRest >>

\* AcquireInstanceLock (part_010:138-150) with acquireLock
\* (instance_lock_unix.go:12-20): flock(LOCK_EX|LOCK_NB) on the open file;
\* on error the file is closed and the already-running error returned
acquireLock(p) ==
    /\ lPc[p] = "opened"
    /\ IF lLock[lFd[p]] = Nil
          THEN /\ lLock' = [lLock EXCEPT ![lFd[p]] = p]
               /\ lPc' = [lPc EXCEPT ![p] = "held"]
               /\ UNCHANGED lFd
          ELSE /\ lFd' = [lFd EXCEPT ![p] = Nil]
               /\ lPc' = [lPc EXCEPT ![p] = "refused"]
               /\ UNCHANGED lLock
    /\ UNCHANGED << lPath, lFiles, lockRest >>

\* a process that was refused exits; another one may be started
Exit(p) ==
    /\ lPc[p] = "refused"
    /\ lPc' = [lPc EXCEPT ![p] = "idle"]
    /\ UNCHANGED << lFd, lPath, lLock, lFiles, lockRest >>

\* Release (part_010:159) with releaseLock (instance_lock_unix.go:23-26):
\* flock(LOCK_UN)
releaseLock(p) ==
    /\ lPc[p] = "held"
    /\ lLock' = [lLock EXCEPT ![lFd[p]] = Nil]
    /\ lPc' = [lPc EXCEPT ![p] = "unlocked"]
    /\ UNCHANGED << lFd, lPath, lFiles, lockRest >>

\* Release (part_010:162): l.lockFile.Close()
Close(p) ==
    /\ lPc[p] = "unlocked"
    /\ lFd' = [lFd EXCEPT ![p] = Nil]
    /\ lPc' = [lPc EXCEPT ![p] = "closed"]
    /\ UNCHANGED << lPath, lLock, lFiles, lockRest >>

\* Release (part_010:163): os.Remove(l.lockPath) unlinks whatever file the
\* path names now; files that are open stay usable
Remove(p) ==
    /\ lPc[p] = "closed"
    /\ lPath' = Nil
    /\ lPc' = [lPc EXCEPT ![p] = "idle"]
    /\ UNCHANGED << lFd, lLock, lFiles, lockRest >>

LockInit ==
    /\ MainInit(FairScenario)
    /\ loggedIn
    /\ LockStart
    /\ SideOffExcept("lock")

LockNext ==
    \E p \in Procs :
        \/ OpenFile(p)
        \/ acquireLock(p)
        \/ Exit(p)
        \/ releaseLock(p)
        \/ Close(p)
        \/ Remove(p)

LockSpec == LockInit /\ [][LockNext]_vars

\* the processes whose AcquireInstanceLock returned a lock and that have
\* not called Release
Holders == { p \in DOMAIN lPc : lPc[p] = "held" }

\* C30: at most one process is between a successful AcquireInstanceLock
\* and its Release
C30_OneInstance ==
    Cardinality(Holders) <= 1

(* ------------------- configuration file and keyring -------------------- *)
\* user ids and tokens explored ("" : none)
UserIds == {"", "u", "v"}
Tokens == {"", "t", "t2"}

\* NewSecureStorage (part_005:30-38): the keyring account for a user id
Account(userID) == IF userID = "" THEN "default-user" ELSE userID
Accounts == { Account(u) : u \in UserIds }

\* config.json does not exist
NoFile == [exists |-> FALSE, user_id |-> "", api_token |-> ""]

\* json.MarshalIndent(config) as it would be without the json:"-" tag
MarshalConfigWithToken(cfg) ==
    [exists |-> TRUE, user_id |-> cfg.UserID, api_token |-> cfg.APIToken]

\* json.MarshalIndent(config) (build-gui.bat:86-97, 181): APIToken has the
\* tag json:"-" and is left out
MarshalConfig(cfg) ==
    [exists |-> TRUE, user_id |-> cfg.UserID, api_token |-> ""]

\* SecureStorage.SaveToken (part_005:41-53) on the keyring ring; up: the
\* keyring takes the call
SaveToken(ring, userID, token, up) ==
    IF token # "" /\ up THEN [ring EXCEPT ![Account(userID)] = token]
    ELSE ring

\* SaveConfig (build-gui.bat:162-189): the keyring after the call
SaveConfigRing(ring, cfg, up) ==
    IF cfg.APIToken # "" /\ cfg.UserID # ""
       THEN SaveToken(ring, cfg.UserID, cfg.APIToken, up)
       ELSE ring

\* SaveConfig(config.GlobalConfig) (build-gui.bat:162-189) after
\* GlobalConfig has become cfg
SaveConfig(cfg, up) ==
    /\ kCfg' = cfg
    /\ kRing' = SaveConfigRing(kRing, cfg, up)
    /\ kFile' = MarshalConfig(cfg)

ConfigStart ==
    /\ kPc = "start"
    /\ kFile \in {NoFile} \cup [exists : {TRUE}, user_id : UserIds \ {"v"},
                                api_token : Tokens \ {"t2"}]
    /\ kCfg = [UserID |-> "", APIToken |-> ""]
    /\ kRing \in [Accounts -> Tokens \ {"t2"}]
    /\ kRing["default-user"] = ""
    /\ kRing["v"] = ""
    /\ kStart = kFile

\* LoadConfig (build-gui.bat:102-113): there is no config.json: the default
\* configuration is saved
LoadConfigDefault(up) ==
    /\ kPc = "start"
    /\ ~kFile.exists
    /\ SaveConfig([UserID |-> "", APIToken |-> ""], up)
    /\ kPc' = "run"
    /\ UNCHANGED << kStart, cfgRest >>

\* LoadConfig (build-gui.bat:115-158): config.json is read; a legacy
\* api_token is moved to the keyring and the file saved again without it;
\* then the token is taken from the keyring
LoadConfigFile(upMigrate, upSave, upGet) ==
    /\ kPc = "start"
    /\ kFile.exists
    /\ LET migrate == kFile.api_token # "" /\ kFile.user_id # "" /\ upMigrate
           ring1   == IF migrate
                         THEN SaveToken(kRing, kFile.user_id, kFile.api_token,
                                        TRUE)
                         ELSE kRing
           cfg1    == [UserID |-> kFile.user_id,
                       APIToken |-> IF migrate THEN kFile.api_token ELSE ""]
           ring2   == IF migrate THEN SaveConfigRing(ring1, cfg1, upSave)
                      ELSE ring1
           found   == kFile.user_id # "" /\ upGet
                         /\ ring2[Account(kFile.user_id)] # ""
       IN  /\ kRing' = ring2
           /\ kFile' = IF migrate THEN MarshalConfig(cfg1) ELSE kFile
           /\ kCfg' = [cfg1 EXCEPT !.APIToken =
                          IF found THEN ring2[Account(kFile.user_id)] ELSE @]
    /\ kPc' = "run"
    /\ UNCHANGED << kStart, cfgRest >>

\* the /auth-result handler (part_012:343-358), Login and Register
\* (part_002:61-66, 97-102): the credentials received are put in
\* GlobalConfig and saved
loginCallback(token, userID, up) ==
    /\ kPc = "run"
    /\ SaveConfig([UserID |-> userID, APIToken |-> token], up)
    /\ UNCHANGED << kPc, kStart, cfgRest >>

\* the tray's logout (part_012:173-181): the credentials are cleared in
\* GlobalConfig and the configuration saved
trayLogout(up) ==
    /\ kPc = "run"
    /\ SaveConfig([UserID |-> "", APIToken |-> ""], up)
    /\ UNCHANGED << kPc, kStart, cfgRest >>

\* Logout (part_002:106-118) with ClearAuthToken (build-gui.bat:215-229):
\* the token of the user is deleted from the keyring, then as the tray's
\* logout; if the keyring refuses nothing is changed
Logout(up) ==
    /\ kPc = "run"
    /\ IF kCfg.UserID # "" /\ ~up
          THEN UNCHANGED << kCfg, kRing, kFile >>
          ELSE /\ kCfg' = [UserID |-> "", APIToken |-> ""]
               /\ kRing' = IF kCfg.UserID # ""
                              THEN [kRing EXCEPT ![Account(kCfg.UserID)] = ""]
                              ELSE kRing
               /\ kFile' = MarshalConfig([UserID |-> "", APIToken |-> ""])
    /\ UNCHANGED << kPc, kStart, cfgRest >>

ConfigInit ==
    /\ MainInit(FairScenario)
    /\ loggedIn
    /\ ConfigStart
    /\ SideOffExcept("config")

ConfigNext ==
    \/ \E up \in BOOLEAN : LoadConfigDefault(up)
    \/ \E upMigrate \in BOOLEAN, upSave \in BOOLEAN, upGet \in BOOLEAN :
          LoadConfigFile(upMigrate, upSave, upGet)
    \/ \E token \in Tokens, userID \in UserIds, up \in BOOLEAN :
          loginCallback(token, userID, up)
    \/ \E up \in BOOLEAN : trayLogout(up)
    \/ \E up \in BOOLEAN : Logout(up)

ConfigSpec == ConfigInit /\ [][ConfigNext]_vars

\* C31: whatever the agent writes to config.json holds no token, and a
\* token the agent puts in the keyring is put under the account that is the
\* user id of the configuration, never under the account of no user
C31_TokenOnlyInKeyring ==
    /\ [](kPc # "off" => kRing["default-user"] = "")
    /\ [][ /\ kFile' # kFile => kFile'.api_token = ""
           /\ \A a \in DOMAIN kRing :
                 (kRing'[a] # kRing[a] /\ kRing'[a] # "") =>
                     /\ a = kCfg'.UserID
                     /\ kRing'[a] = kCfg'.APIToken ]_vars

\* config.json held a plaintext token when the agent started; the agent
\* has moved it to the keyring under the user id and written the file
\* without it
C31_LegacyTokenMigrated ==
    /\ kPc = "run"
    /\ kStart.api_token = "t"
    /\ kStart.user_id = "u"
    /\ kFile.exists
    /\ kFile.api_token = ""
    /\ kFile.user_id = "u"
    /\ kRing["u"] = "t"
    /\ kCfg.APIToken = "t"

(* ----------------------------- outbound PING --------------------------- *)
\* C32: no frame the agent writes to a control stream is a PING: handlers
\* and relay tasks write CONNECTED, DATA and CLOSE, the supervisor AUTH, and
\* the reader writes one frame per inbound PING, a PONG with the id of that
\* PING
C32_NoOutboundPing ==
    /\ \A st \in Sessions : first[st] # "ping"
    /\ \A h \in Handlers : \A k \in 1..Len(sent[h]) :
          sent[h][k].type \in {"connected", "data", "close"}
    /\ Len(pongs) <= pings
    /\ \A k \in 1..Len(pongs) : /\ pongs[k].type = "pong"
                                /\ pongs[k].pong \in {Nil, pongs[k].ping}

\* an inbound PING was answered with a PONG on a stream on which a
\* sub-connection has written frames
C32_PingAnswered ==
    /\ \E k \in 1..Len(pongs) : pongs[k].pong = pongs[k].ping
    /\ \E h \in Handlers : sent[h] # << >>

(* --------------------------- relay task exit --------------------------- *)
\* a relay task of h returns and its deferred sendCloseMessage runs
\* (reconnect.go:46-52, 82-88)
RelayExit(h) ==
    \/ relayFromConnToQuicExit(h)
    \/ relayFromChanToConnWriteErr(h)
    \/ relayFromChanToConnEnd(h)

\* C33: when a relay task of a sub-connection exits, CLOSE(id) is written
\* (when the installed stream takes a write), and after the step the
\* sub-connection's socket is closed, its queue is closed and the table does
\* not hold it, so that its other relay task finds its socket or its queue
\* closed and exits too
C33_RelayExitCleansUp ==
    [][ \A h \in Handlers :
          RelayExit(h) =>
            /\ SendOk => /\ sent'[h] # << >>
                         /\ sent'[h][Len(sent'[h])].type = "close"
            /\ sockClosed'[h]
            /\ chanClosed'[h]
            /\ \A i \in Ids : clientConns'[i] # h ]_vars

\* the same, for a sub-connection whose identifier no other CONNECT carried
C33_RelayExitCleansUpAlone ==
    [][ \A h \in Handlers :
          (RelayExit(h) /\ \A g \in Handlers \ {h} : hId[g] # hId[h]) =>
            /\ sockClosed'[h]
            /\ chanClosed'[h]
            /\ \A i \in Ids : clientConns'[i] # h ]_vars

\* once one relay task of a sub-connection has exited, the other one exits
C33_OtherRelayExits ==
    \A h \in Handlers :
        (r1Pc[h] = "done" \/ r2Pc[h] = "done") ~>
            (r1Pc[h] = "done" /\ r2Pc[h] = "done")

(* ----------------------------- table entries --------------------------- *)
\* handleConnect of h has returned (connection.go:68, 97, 106, 113)
Returned(h) == hPc[h] \in {"dialfailed", "unconfirmed", "closed", "relaying"}

\* C34: every sub-connection the table holds has a socket the agent has not
\* closed and an open queue, and once its handleConnect has returned both of
\* its relay tasks are running
C34_TableEntriesLive ==
    \A i \in Ids :
        clientConns[i] # Nil =>
            LET o == clientConns[i] IN
            /\ ~sockClosed[o]
            /\ ~chanClosed[o]
            /\ Returned(o) => /\ r1Pc[o] \in {"run", "exit"}
                              /\ r2Pc[o] = "run"

(* ------------------------------ queue safety --------------------------- *)
\* C35: close(cc.dataChan) and the offer "cc.dataChan <- data" are only
\* made, under clientMutex, on a Connection found in the table, and the
\* table never holds a Connection whose queue is closed: whatever the order
\* of DATA dispatch, inbound CLOSE, relay cleanup, reader teardown and
\* DisconnectQuic, no queue is closed a second time and nothing is offered
\* to a closed queue
C35_QueueClosedOnce ==
    /\ [](\A i \in Ids : clientConns[i] # Nil => ~chanClosed[clientConns[i]])
    /\ [][ \A h \in Handlers :
             /\ closedBy'[h] # closedBy[h] => (~chanClosed[h] /\ h \in Objects)
             /\ chanClosed'[h] # chanClosed[h] =>
                    (~chanClosed[h] /\ h \in Objects)
             /\ queue'[h] > queue[h] => (~chanClosed[h] /\ h \in Objects) ]_vars

\* a queue was closed by an inbound CLOSE, by a teardown or by
\* DisconnectQuic, and both relay tasks of its sub-connection have run
\* their own cleanup as well
C35_CleanupAfterClose ==
    \E h \in Handlers :
        /\ chanClosed[h]
        /\ closedBy[h][1] # "cleanup"
        /\ r1Pc[h] = "done"
        /\ r2Pc[h] = "done"

(* ------------------- CLOSE frames against handleConnect ---------------- *)
\* the handlers started by a CONNECT(id) that the reader dispatched on the
\* stream it is reading
AddressedBy(id) ==
    { h \in Handlers : hPc[h] # "idle" /\ hId[h] = id /\ hSess[h] = supConn }

\* part_006:377-384: CLOSE(id), as quicReaderClose, with the handlers it was
\* meant for remembered
quicReaderCloseAfterConnect(id) ==
    /\ supPc = "running"
    /\ ~decoderErr
    /\ stale' = FALSE
    /\ wireStale' = FALSE
    /\ UNCHANGED decoderErr
    /\ CloseClientConn(id, <<"frame", Nil>>)
    /\ closeSeen' = closeSeen \cup AddressedBy(id)
    /\ UNCHANGED << quicVars, shouldAutoReconnect, loopVars, sessVars, first,
                    sent, taskVars, uiVars, writeErr, queue >>
    /\ UNCHANGED << scenario, dropped, pongs, loggedIn, pings, faults, lost >>
    /\ UNCHANGED << writerVars, codecVars, discVars, authVars, lockVars,
                    cfgVars, mutexVars >>

RaceReader ==
    \/ quicReaderReadError
    \/ quicReaderHealthFail
    \/ quicReaderTimeout
    \/ quicReaderIdle
    \/ \E ping \in BOOLEAN : quicReaderUnread(ping)
    \/ quicReaderDeaf
    \/ quicReaderNoOp
    \/ \E id \in Ids, h \in Handlers : quicReaderConnect(id, h)
    \/ \E id \in Ids, decoded \in BOOLEAN : quicReaderData(id, decoded)
    \/ \E id \in Ids : quicReaderCloseAfterConnect(id)
    \/ \E id \in Ids : quicReaderPing(id)

RaceInit == MainInit(FairScenario) /\ SideOff

RaceNext == Supervisor \/ RaceReader \/ Tasks \/ Tray \/ Environment

\* the session core with the fairness of FairSpec
RaceSpec ==
    /\ RaceInit
    /\ [][RaceNext]_vars
    /\ WF_vars(SupervisorProgress)
    /\ WF_vars(quicReaderReadError)
    /\ WF_vars(quicReaderHealthFail)
    /\ WF_vars(quicReaderIdle)
    /\ \A h \in Handlers : WF_vars(TaskProgress(h))

\* C36: after CONNECT(id) and a later CLOSE(id) on the same session, the
\* table comes to hold nothing of the sub-connection that CONNECT asked for
\* and the socket dialed for it, if the dial succeeded, is closed
C36_CloseAfterConnectWins ==
    \A h \in Handlers :
        (h \in closeSeen) ~>
            /\ \A i \in Ids : clientConns[i] # h
            /\ hPc[h] = "dialfailed" \/ sockClosed[h]

(* ---------------------- frames and their session ----------------------- *)
\* C37: every CONNECTED, DATA or CLOSE frame the tasks of a sub-connection
\* write goes to the stream on which the CONNECT that started them was
\* received, never to the stream of a later session
C37_FramesStayOnTheirStream ==
    \A h \in Handlers :
        \A k \in 1..Len(sent[h]) : sent[h][k].stream = hSess[h]

(* --------------------------- cleanup by object ------------------------- *)
\* handleConnect of h has stored its Connection (connection.go:84-86)
Stored(h) ==
    hPc[h] \in {"confirm", "unconfirmed", "initfail", "relaying", "closed"}

\* C38: the sendCloseMessage that a task of one sub-connection runs closes
\* the socket and the queue of that sub-connection only, and no Connection
\* that was stored is left out of the table with its socket open
C38_CleanupOwnObject ==
    /\ [](\A h \in Handlers :
             (Stored(h) /\ ~sockClosed[h]) => clientConns[hId[h]] = h)
    /\ [][ \A h \in Handlers :
             (closedBy'[h] # closedBy[h] /\ closedBy'[h][1] = "cleanup") =>
                 closedBy'[h][2] = h ]_vars

(* ------------------------------ IsConnected ---------------------------- *)
\* IsConnected (reconnect.go:32-36), read by the tray's updateMenuVisibility
\* (part_012:70-93)
IsConnected == quicConn # Nil /\ quicStream # Nil

\* the supervisor is between the installation of a session's stream and
\* the end of that session: authenticating on it or reading it
Serving == supPc \in {"auth", "authwait", "running"}

\* C40: IsConnected() is true only while the supervisor serves the installed
\* session and the agent has not closed it: after the supervisor closed the
\* session on an authentication failure, after the reader returned on a
\* read error or on the health monitor's verdict, it is false until the
\* stream of a newly dialed session is installed
C40_IsConnectedOnlyWhileLive ==
    IsConnected =>
        /\ Serving
        /\ supConn = quicConn
        /\ quicConn \notin closedSess

(* ------------------------ quicMutex and clientMutex -------------------- *)
\* The goroutines of package conn, each followed through the Lock, RLock,
\* Unlock and RUnlock calls it makes.  What a goroutine does between two of
\* them does not wait for another goroutine (a stream write, a socket close,
\* a non-blocking channel send), so it is not a step here.
MutexTasks ==
    {"ConnectQuicServer", "handleConnect", "relayFromConnToQuic",
     "relayFromChanToConn", "tray", "updateMenuVisibility"}

NoOp == << >>
LockOp(kind, mutex) == [op |-> kind, mutex |-> mutex]

\* part_006:211-214: the stream is installed
installLocks ==
    << LockOp("Lock", "quicMutex"), LockOp("Unlock", "quicMutex") >>
\* part_006:312-318, 340-346: quicReader closes every table entry
quicReaderTeardownLocks ==
    << LockOp("Lock", "clientMutex"), LockOp("Unlock", "clientMutex") >>
\* part_006:363-376: quicReader offers a DATA payload
quicReaderDataLocks ==
    << LockOp("RLock", "clientMutex"), LockOp("RUnlock", "clientMutex") >>
\* part_006:377-384: quicReader handles CLOSE
quicReaderCloseLocks ==
    << LockOp("Lock", "clientMutex"), LockOp("Unlock", "clientMutex") >>
\* part_006:401-424: sendMessage
sendMessageLocks ==
    << LockOp("Lock", "quicMutex"), LockOp("Unlock", "quicMutex") >>
\* sendCloseMessage as it would be if it sent the frame inside its critical
\* section
sendCloseMessageNested ==
    << LockOp("Lock", "clientMutex") >> \o sendMessageLocks
        \o << LockOp("Unlock", "clientMutex") >>
\* part_006:426-436: sendCloseMessage: sendMessage has returned when
\* clientMutex is taken
sendCloseMessageLocks ==
    sendMessageLocks
        \o << LockOp("Lock", "clientMutex"), LockOp("Unlock", "clientMutex") >>
\* connection.go:84-86: handleConnect stores the Connection
handleConnectLocks ==
    << LockOp("Lock", "clientMutex"), LockOp("Unlock", "clientMutex") >>
\* part_006:440-467: DisconnectQuic (the deferred Unlock runs last)
DisconnectQuicLocks ==
    << LockOp("Lock", "quicMutex"), LockOp("Lock", "clientMutex"),
       LockOp("Unlock", "clientMutex"), LockOp("Unlock", "quicMutex") >>
\* reconnect.go:16-25: ReconnectQuic
ReconnectQuicLocks ==
    << LockOp("Lock", "quicMutex"), LockOp("Unlock", "quicMutex") >>
\* reconnect.go:32-36: IsConnected
IsConnectedLocks ==
    << LockOp("Lock", "quicMutex"), LockOp("Unlock", "quicMutex") >>

\* the calls each goroutine makes, one after the other, in any order.  The
\* supervisor's goroutine runs quicReader itself (part_006:254)
CallsOf(t) ==
    CASE t = "ConnectQuicServer" ->
            {installLocks, quicReaderTeardownLocks, quicReaderDataLocks,
             quicReaderCloseLocks, sendMessageLocks}
      [] t = "handleConnect" ->
            {handleConnectLocks, sendMessageLocks, sendCloseMessageLocks}
      [] t = "relayFromConnToQuic" -> {sendMessageLocks, sendCloseMessageLocks}
      [] t = "relayFromChanToConn" -> {sendCloseMessageLocks}
      [] t = "tray" -> {DisconnectQuicLocks, ReconnectQuicLocks}
      [] t = "updateMenuVisibility" -> {IsConnectedLocks}

MutexStart ==
    /\ mCall = [t \in MutexTasks |-> NoOp]
    /\ mAt = [t \in MutexTasks |-> 0]
    /\ mWant = [t \in MutexTasks |-> NoOp]
    /\ mHeld = [t \in MutexTasks |-> << >>]

\* t holds mutex in the given mode ("Lock" or "RLock")
HoldsAs(t, mutex, kind) ==
    \E k \in 1..Len(mHeld[t]) :
        mHeld[t][k].mutex = mutex /\ mHeld[t][k].op = kind
Holds(t, mutex) == HoldsAs(t, mutex, "Lock") \/ HoldsAs(t, mutex, "RLock")

\* sync.Mutex and sync.RWMutex: Lock returns when nobody holds the mutex;
\* RLock returns when nobody holds it for writing and no Lock call is
\* blocked on it
CanAcquire(t) ==
    /\ mWant[t] # NoOp
    /\ IF mWant[t].op = "Lock"
          THEN \A u \in MutexTasks : ~Holds(u, mWant[t].mutex)
          ELSE /\ \A u \in MutexTasks : ~HoldsAs(u, mWant[t].mutex, "Lock")
               /\ \A u \in MutexTasks \ {t} :
                     mWant[u] # LockOp("Lock", mWant[t].mutex)

\* the task is not in a call and makes its next one
Called(t, ops) ==
    /\ mCall[t] = NoOp
    /\ ops \in CallsOf(t)
    /\ mCall' = [mCall EXCEPT ![t] = ops]
    /\ mAt' = [mAt EXCEPT ![t] = 1]
    /\ UNCHANGED << mWant, mHeld, mutexRest >>

\* the task calls Lock or RLock and blocks in it
LockCalled(t) ==
    /\ mCall[t] # NoOp
    /\ mWant[t] = NoOp
    /\ mCall[t][mAt[t]].op \in {"Lock", "RLock"}
    /\ mWant' = [mWant EXCEPT ![t] = mCall[t][mAt[t]]]
    /\ UNCHANGED << mCall, mAt, mHeld, mutexRest >>

\* the Lock or RLock call returns
LockAcquired(t) ==
    /\ CanAcquire(t)
    /\ mHeld' = [mHeld EXCEPT ![t] = Append(@, mWant[t])]
    /\ mWant' = [mWant EXCEPT ![t] = NoOp]
    /\ mAt' = [mAt EXCEPT ![t] = @ + 1]
    /\ UNCHANGED << mCall, mutexRest >>

\* the locks held, without mutex
Without(held, mutex) ==
    LET Other(x) == x.mutex # mutex IN SelectSeq(held, Other)

\* Unlock or RUnlock; after the last operation of the call the task is free
\* to make its next call
Unlocked(t) ==
    /\ mCall[t] # NoOp
    /\ mWant[t] = NoOp
    /\ mCall[t][mAt[t]].op \in {"Unlock", "RUnlock"}
    /\ mHeld' = [mHeld EXCEPT ![t] = Without(@, mCall[t][mAt[t]].mutex)]
    /\ IF mAt[t] = Len(mCall[t])
          THEN /\ mCall' = [mCall EXCEPT ![t] = NoOp]
               /\ mAt' = [mAt EXCEPT ![t] = 0]
          ELSE /\ mAt' = [mAt EXCEPT ![t] = @ + 1]
               /\ UNCHANGED mCall
    /\ UNCHANGED << mWant, mutexRest >>

MutexInit ==
    /\ MainInit(FairScenario)
    /\ loggedIn
    /\ MutexStart
    /\ SideOffExcept("mutex")

MutexNext ==
    \E t \in MutexTasks :
        \/ \E ops \in CallsOf(t) : Called(t, ops)
        \/ LockCalled(t)
        \/ LockAcquired(t)
        \/ Unlocked(t)

MutexSpec == MutexInit /\ [][MutexNext]_vars

\* the names of the locks t holds, in the order it acquired them
HeldNames(t) == [k \in 1..Len(mHeld[t]) |-> mHeld[t][k].mutex]

\* C39: a task that holds both quicMutex and clientMutex took quicMutex
\* first; no task is blocked on quicMutex while it holds clientMutex; and
\* whenever a task is blocked in Lock or RLock, a blocked call can return or
\* a task that holds a lock is running (not blocked): no deadlock
C39_LockOrder ==
    /\ \A t \in MutexTasks :
          HeldNames(t) \in {<< >>, <<"quicMutex">>, <<"clientMutex">>,
                            <<"quicMutex", "clientMutex">>}
    /\ \A t \in MutexTasks :
          (mWant[t] # NoOp /\ mWant[t].mutex = "quicMutex") =>
              ~Holds(t, "clientMutex")
    /\ (\E t \in MutexTasks : mWant[t] # NoOp) =>
          \E u \in MutexTasks :
              \/ CanAcquire(u)
              \/ mWant[u] = NoOp /\ mHeld[u] # << >>

\* DisconnectQuic holds both locks while one task is blocked on quicMutex
\* and another one on clientMutex
C39_BothHeldOthersBlocked ==
    /\ HeldNames("tray") = <<"quicMutex", "clientMutex">>
    /\ mWant["relayFromConnToQuic"] = LockOp("Lock", "quicMutex")
    /\ mWant["ConnectQuicServer"] = LockOp("RLock", "clientMutex")
    /\ mWant["relayFromChanToConn"] = LockOp("Lock", "clientMutex")

====
